---- MODULE Spec2Model ----
(***************************************************************************)
(* A model of microsandbox's sandbox orchestration and REPL multiplexing.  *)
(*                                                                         *)
(* Part I  (SpecLifecycle): the server's sandbox.start / sandbox.stop      *)
(*   handlers (microsandbox-server/lib/handler.rs) running concurrently    *)
(*   over the port allocator, the namespace directories, the per-namespace *)
(*   config file and the supervisor (orchestra::up / orchestra::down).     *)
(*   A handler is cut into steps at its await points.                      *)
(*                                                                         *)
(* Part II (SpecRepl): the portal's REPL reactor (repl/engine.rs), the     *)
(*   Python sub-engine (repl/python.rs) and the Rust sub-engine            *)
(*   (repl/rust.rs), with their reader tasks and the interpreter they      *)
(*   drive.                                                                *)
(***************************************************************************)
EXTENDS Integers, Sequences, FiniteSets, TLC

(***************************************************************************)
(* Bounds and input sets                                                   *)
(***************************************************************************)
\* largest port pool that is explored; Init picks a pool of 1..MaxPool ports
MaxPool == 2
\* number of concurrent RPC calls that are explored
MaxCalls == 2
\* number of evals that are submitted to the REPL reactor
MaxEvals == 2
\* number of RPC calls that are run one after the other
MaxSeq == 3
\* number of the attempts of the readiness poll that are taken in one step
PollStride == 500
\* number of the calls of EngineHandle::shutdown
MaxShutdowns == 2
\* number of the probes of the portal that are taken in one step
ProbeStride == 2500
\* length of the names that are explored character by character; the longer
\* names are such a name followed by a run of the letter a
MaxNameHead == 2
\* length of the paths given to paths_overlap
MaxPathLen == 4
\* calls made on one SandboxBase of the SDK
MaxSdkCalls == 3

Namespaces == {"ns1"}
Sandboxes == {"a", "b"}
Calls == 1..MaxCalls
SeqCalls == 1..MaxSeq

\* first port of the pool (the pool is [PORT_MIN, PORT_MAX])
PORT_MIN == 6000
\* guest side of the portal port mapping
DEFAULT_PORTAL_GUEST_PORT == 4444

VARIABLES
    \* ---- Part I: server ----
    poolSize,     \* configured size of the port pool
    free,         \* port allocator: set of free ports
    assigned,     \* port allocator: map key -> port (NoPort when unassigned)
    nsDir,        \* namespaces whose directory exists
    cfgExists,    \* namespaces whose config file exists
    cfgFile,      \* contents of the config file: ns -> sandbox -> entry
    vmUp,         \* keys whose supervisor/VM was brought up and not taken down
    call          \* the RPC calls: c -> record (see IdleCall)

lifeVars == <<poolSize, free, assigned, nsDir, cfgExists, cfgFile, vmUp, call>>

VARIABLES
    \* ---- Part II: portal, REPL reactor and sub-engines ----
    nSub,         \* number of the evals submitted so far; their ids are 1..nSub
    ev,           \* the evals: id -> [lang, code, timeout, rx]; rx tells
                  \* whether the receiver of the response channel is "open"
                  \* or "dropped"
    cmdQ,         \* the reactor's command channel (ids of the Cmd::Eval in it)
    rCur,         \* the eval whose engine.eval() the reactor awaits (0: none)
    returned,     \* the evals whose engine.eval() has returned to the reactor
    resp,         \* id -> the messages sent on the eval's response channel
    timedOut,     \* id -> "no", or whether the marker had been seen ("seen")
                  \*       or not ("unseen") when the eval's timeout elapsed
    py,           \* Python sub-engine: request, slot, position, result
    pyProc,       \* the python3 process: its stdin, the code it runs, and
                  \* env, the evals whose code it has run, in order
    pyStdout,     \* lines in the process's stdout pipe
    pyStderr,     \* lines in the process's stderr pipe
    rs,           \* Rust sub-engine (worker thread): request, slot, position,
                  \* and ctx, the evals its EvalContext was given, in order
    rsStdoutEv,   \* events in the interpreter's stdout channel
    rsStderrEv,   \* events in the interpreter's stderr channel
    rsOut         \* the worker's out_tx/out_rx channel

replVars == <<nSub, ev, cmdQ, rCur, returned, resp, timedOut, py, pyProc,
              pyStdout, pyStderr, rs, rsStdoutEv, rsStderrEv, rsOut>>

VARIABLES
    \* ---- one call looked at closely ----
    poll,         \* the readiness poll of a sandbox.start (see NoPoll)
    shut,         \* the reactor task: whether it initializes the engines,
                  \* consumes commands or has ended, the calls of
                  \* EngineHandle::shutdown, and what became of the evals
                  \* that were not dispatched (see NoShutdown)
    session       \* the languages whose REPL session (python3 process,
                  \* EvalContext) exists

portalAux == <<poll, shut, session>>

VARIABLES
    \* ---- Part III: the server's JSON-RPC endpoint ----
    rpc,          \* the request that json_rpc_handler serves (see NoRpc)
    check,        \* a name and what validate_sandbox_name or
                  \* validate_namespace said about it (see NoCheck)
    metrics       \* a sandbox.metrics.get call: the namespaces directory,
                  \* the params and the response (see MetricsStart)

serverAux == <<rpc, check, metrics>>

VARIABLES
    \* ---- Part IV: the portal's code module ----
    node,         \* the Node engine: its process, the pipes, the channel of
                  \* the active evaluation and the reader threads (see NoNode)
    handle        \* EngineHandle and reactor of the code module: the command
                  \* channel, the evals and their channels (see NoHandle)

codeAux == <<node, handle>>

VARIABLES
    \* ---- Part V: the Rust SDK and the core library ----
    sdk,          \* a SandboxBase of the Rust SDK, the requests it has sent
                  \* and its last call (see NoSdk)
    core          \* a call of a function of microsandbox-core: the function,
                  \* its arguments and its result (see NoCore)

libAux == <<codeAux, sdk, core>>

auxVars == <<portalAux, serverAux, libAux>>

vars == <<lifeVars, replVars, auxVars>>

(***************************************************************************)
(* Part I.  Port allocator                                                 *)
(***************************************************************************)
NoPort == 0
Keys == Namespaces \X Sandboxes
PORT_MAX == PORT_MIN + poolSize - 1
PortRange == PORT_MIN..PORT_MAX

AssignedPorts == {assigned[k] : k \in {x \in Keys : assigned[x] # NoPort}}

\* assign(key): the existing port of key; else any free port; fails only when
\* key is unassigned and the free set is empty.
\* The set of the ports the call may return (empty: the call fails).
\* (mutant: the port is always taken from the free set)
AssignablePortsIgnoresExisting(key) ==
    free

AssignablePorts(key) ==
    IF assigned[key] # NoPort THEN {assigned[key]}
    ELSE free

\* the allocator after assign(key) returned p
\* (mutant: the port is mapped but stays in the free set)
assign_port_keeps_free(key, p) ==
    /\ assigned' = [assigned EXCEPT ![key] = p]
    /\ free' = free

assign_port(key, p) ==
    /\ assigned' = [assigned EXCEPT ![key] = p]
    /\ free' = free \ {p}

\* release(key): remove the mapping, return the port to the free set; idempotent
\* (mutant: the mapping is removed and the port is lost)
release_port_loses_port(key) ==
    /\ assigned' = [assigned EXCEPT ![key] = NoPort]
    /\ free' = free

release_port(key) ==
    /\ assigned' = [assigned EXCEPT ![key] = NoPort]
    /\ free' = IF assigned[key] # NoPort THEN free \cup {assigned[key]} ELSE free

(***************************************************************************)
(* Part I.  Config file                                                    *)
(***************************************************************************)
\* an optional number that is not given (memory: None; no "memory" key)
NoMemory == 0
NoEntry == [present |-> FALSE, image |-> "none", memory |-> NoMemory, ports |-> <<>>]
\* DEFAULT_CONFIG is "sandboxes: []"; the handler replaces a sandboxes value
\* that is no mapping by the empty mapping (handler.rs 419-422)
DEFAULT_CONFIG == [s \in Sandboxes |-> NoEntry]

\* the config of a sandbox.start request: image is optional, ports a list of
\* "host:guest" mappings, here <<host, guest>>
\* (a request without an image is not merged at all, whatever its ports are, so
\* only the one with the empty list is explored)
ReqPorts == {<<>>, << <<8080, 80>>, <<9999, DEFAULT_PORTAL_GUEST_PORT>> >>}
ReqMemory == {NoMemory, 512}
\* the requests of the calls that are run concurrently
Requests == {r \in [image : {"none", "img"}, memory : {NoMemory}, ports : ReqPorts] :
                r.image = "none" => r.ports = <<>>}
\* the requests of the calls that are run one after the other: without an
\* image; with an image alone; with an image, memory and ports
SeqRequests == {r \in [image : {"none", "img"}, memory : ReqMemory, ports : ReqPorts] :
                   /\ r.image = "none" => r.memory = NoMemory
                   /\ r.memory = NoMemory <=> r.ports = <<>>}
NoRequest == [image |-> "none", memory |-> NoMemory, ports |-> <<>>]

\* handler.rs 426-544: an entry built from the request alone, only when the
\* request carries an image; memory is set only when the request gives it,
\* ports only when the request's list is not empty; the new entry replaces
\* the sandbox's entry
MergeRequest(cfg, sb, req) ==
    IF req.image # "none"
    THEN [cfg EXCEPT ![sb] = [present |-> TRUE, image |-> req.image,
                              memory |-> req.memory, ports |-> req.ports]]
    ELSE cfg

\* handler.rs 577-594: drop every mapping that ends in :guest_port, then push
\* "port:guest_port"
RECURSIVE Retain(_)
Retain(ports) ==
    IF ports = <<>> THEN <<>>
    ELSE IF Head(ports)[2] = DEFAULT_PORTAL_GUEST_PORT
         THEN Retain(Tail(ports))
         ELSE <<Head(ports)>> \o Retain(Tail(ports))

\* (mutant: the mapping is pushed and no prior mapping is dropped)
RewritePortsKeepsPrior(ports, port) ==
    Append(ports, <<port, DEFAULT_PORTAL_GUEST_PORT>>)

RewritePorts(ports, port) ==
    Append(Retain(ports), <<port, DEFAULT_PORTAL_GUEST_PORT>>)

(***************************************************************************)
(* Part I.  Name validation                                                *)
(***************************************************************************)
\* the characters of the names: a letter, a digit, the hyphen, the
\* underscore, the wildcard and "eacute", the letter e with an acute accent,
\* which is not ASCII
Alphabet == {"a", "7", "-", "_", "*", "eacute"}
\* the letters and the digits that occur in the names of the model
Letters == {"a", "b", "n", "s"}
Digits == {"1", "2", "7"}
is_ascii_alphanumeric(c) == c \in Letters \cup Digits
\* the number of bytes of a character in UTF-8
len_utf8(c) == IF c = "eacute" THEN 2 ELSE 1

\* handler.rs 951 and 994
NAME_MAX == 63

\* a name is the sequence of its characters
RECURSIVE NamesUpTo(_)
NamesUpTo(n) ==
    IF n = 0 THEN {<<>>}
    ELSE NamesUpTo(n - 1) \cup {Append(h, c) : h \in {g \in NamesUpTo(n - 1) : Len(g) = n - 1},
                                              c \in Alphabet}
Fill(n) == [k \in 1..n |-> "a"]
Fills == {0, NAME_MAX - 2, NAME_MAX - 1, NAME_MAX}
Names == {h \o Fill(n) : h \in NamesUpTo(MaxNameHead), n \in Fills}

\* str::len: the length of the name in bytes
RECURSIVE len(_)
len(name) == IF name = <<>> THEN 0 ELSE len_utf8(Head(name)) + len(Tail(name))

\* name.chars().all(|c| c.is_ascii_alphanumeric() || c == '-' || c == '_')
valid_chars(name) ==
    \A k \in DOMAIN name : is_ascii_alphanumeric(name[k]) \/ name[k] \in {"-", "_"}

\* validate_sandbox_name, handler.rs 942-982
\* (mutant: names of NAME_MAX bytes are rejected too)
validate_sandbox_name_below_max(name) ==
    IF name = <<>> THEN "empty"
    ELSE IF len(name) >= NAME_MAX THEN "too_long"
    ELSE IF ~valid_chars(name) THEN "invalid_chars"
    ELSE IF ~is_ascii_alphanumeric(name[1]) THEN "invalid_start"
    ELSE "ok"

validate_sandbox_name(name) ==
    IF name = <<>> THEN "empty"
    ELSE IF len(name) > NAME_MAX THEN "too_long"
    ELSE IF ~valid_chars(name) THEN "invalid_chars"
    ELSE IF ~is_ascii_alphanumeric(name[1]) THEN "invalid_start"
    ELSE "ok"

\* validate_namespace, handler.rs 985-1034
validate_namespace(namespace) ==
    IF namespace = <<>> THEN "empty"
    ELSE IF len(namespace) > NAME_MAX THEN "too_long"
    ELSE IF namespace = <<"*">> THEN "wildcard"
    ELSE IF ~valid_chars(namespace) THEN "invalid_chars"
    ELSE IF ~is_ascii_alphanumeric(namespace[1]) THEN "invalid_start"
    ELSE "ok"

\* the namespace of a query for every namespace
WILDCARD == "*"
\* the characters of the names that the calls carry
Chars(name) ==
    CASE name = "ns1" -> <<"n", "s", "1">>
      [] name = "ns2" -> <<"n", "s", "2">>
      [] name = "a" -> <<"a">>
      [] name = "b" -> <<"b">>
      [] name = WILDCARD -> <<"*">>

\* handler.rs 300-302 and 707-709: validate_sandbox_name(&params.sandbox)?
\* and then validate_namespace(&params.namespace)?
ValidNames(ns, sb) ==
    validate_sandbox_name(Chars(sb)) = "ok" /\ validate_namespace(Chars(ns)) = "ok"

(***************************************************************************)
(* Part I.  The RPC calls                                                  *)
(***************************************************************************)
\* req: the call's request; cfg: its copy of the config; port: the port it was
\* assigned; wrote: the ports list of its sandbox that it wrote to the file
IdleCall == [kind |-> "none", pc |-> "idle", ns |-> "ns1", sb |-> "a",
             req |-> NoRequest, cfg |-> DEFAULT_CONFIG, port |-> NoPort,
             wrote |-> <<>>, result |-> "none"]

KeyOf(c) == <<call[c].ns, call[c].sb>>

\* a call is issued only after the calls before it (the slots are
\* interchangeable)
CanIssue(c) == /\ call[c].pc = "idle"
               /\ \A d \in DOMAIN call : d < c => call[d].pc # "idle"

\* the call returns res; its local copy of the config is dropped
Finish(c, res) == call' = [call EXCEPT ![c].pc = "done", ![c].result = res,
                                       ![c].cfg = DEFAULT_CONFIG]

\* sandbox_start_impl, lines 299-302, and sandbox_stop_impl, 706-709: a name
\* is not valid, the call returns the validation error and nothing else is done
\* (mutant: the namespace directory is created before the names are validated)
StartInvalidAfterMkdir(c, ns, sb, req) ==
    /\ CanIssue(c)
    /\ ~ValidNames(ns, sb)
    /\ call' = [call EXCEPT ![c] = [IdleCall EXCEPT !.kind = "start", !.ns = ns, !.sb = sb,
                                       !.req = req, !.pc = "done", !.result = "validation"]]
    /\ nsDir' = nsDir \cup {ns}
    /\ UNCHANGED <<replVars, auxVars>>
    /\ UNCHANGED <<poolSize, free, assigned, cfgExists, cfgFile, vmUp>>

StartInvalid(c, ns, sb, req) ==
    /\ CanIssue(c)
    /\ ~ValidNames(ns, sb)
    /\ call' = [call EXCEPT ![c] = [IdleCall EXCEPT !.kind = "start", !.ns = ns, !.sb = sb,
                                       !.req = req, !.pc = "done", !.result = "validation"]]
    /\ UNCHANGED <<replVars, auxVars>>
    /\ UNCHANGED <<poolSize, free, assigned, nsDir, cfgExists, cfgFile, vmUp>>

StopInvalid(c, ns, sb) ==
    /\ CanIssue(c)
    /\ ~ValidNames(ns, sb)
    /\ call' = [call EXCEPT ![c] = [IdleCall EXCEPT !.kind = "stop", !.ns = ns, !.sb = sb,
                                       !.pc = "done", !.result = "validation"]]
    /\ UNCHANGED <<replVars, auxVars>>
    /\ UNCHANGED <<poolSize, free, assigned, nsDir, cfgExists, cfgFile, vmUp>>

\* sandbox_start_impl, lines 299-544: validate the names, create the namespace
\* directory and its environment (menv::initialize writes the default config
\* file when there is none), decide whether a configuration is available, read
\* the config file and merge the request into the copy that was read.
\* (mutant: a request without an image goes on when the config file has no
\* entry for the sandbox)
StartBeginIgnoresMissingEntry(c, ns, sb, req) ==
    /\ CanIssue(c)
    /\ ValidNames(ns, sb)
    /\ LET created == ns \notin nsDir
           existsNow == ns \in cfgExists \/ created
           fileNow == IF ns \in cfgExists THEN cfgFile[ns] ELSE DEFAULT_CONFIG
           inRequest == req.image # "none"
       IN /\ nsDir' = nsDir \cup {ns}
          /\ IF ~inRequest /\ ~existsNow
             THEN \* 339-346
                  /\ call' = [call EXCEPT ![c] = [IdleCall EXCEPT !.kind = "start",
                                !.ns = ns, !.sb = sb, !.req = req, !.pc = "done",
                                !.result = "validation"]]
                  /\ UNCHANGED <<cfgExists, cfgFile>>
             ELSE IF FALSE
             THEN
                  /\ call' = [call EXCEPT ![c] = [IdleCall EXCEPT !.kind = "start",
                                !.ns = ns, !.sb = sb, !.req = req, !.pc = "done",
                                !.result = "validation"]]
                  /\ cfgExists' = cfgExists \cup {ns}
                  /\ cfgFile' = [cfgFile EXCEPT ![ns] = fileNow]
             ELSE \* 352-362 or 389-399, then 402-544
                  /\ call' = [call EXCEPT ![c] = [IdleCall EXCEPT !.kind = "start",
                                !.ns = ns, !.sb = sb, !.req = req, !.pc = "assign",
                                !.cfg = MergeRequest(fileNow, sb, req)]]
                  /\ cfgExists' = cfgExists \cup {ns}
                  /\ cfgFile' = [cfgFile EXCEPT ![ns] = fileNow]
    /\ UNCHANGED <<replVars, auxVars>>
    /\ UNCHANGED <<poolSize, free, assigned, vmUp>>

StartBegin(c, ns, sb, req) ==
    /\ CanIssue(c)
    /\ ValidNames(ns, sb)
    /\ LET created == ns \notin nsDir
           existsNow == ns \in cfgExists \/ created
           fileNow == IF ns \in cfgExists THEN cfgFile[ns] ELSE DEFAULT_CONFIG
           inRequest == req.image # "none"
       IN /\ nsDir' = nsDir \cup {ns}
          /\ IF ~inRequest /\ ~existsNow
             THEN \* 339-346
                  /\ call' = [call EXCEPT ![c] = [IdleCall EXCEPT !.kind = "start",
                                !.ns = ns, !.sb = sb, !.req = req, !.pc = "done",
                                !.result = "validation"]]
                  /\ UNCHANGED <<cfgExists, cfgFile>>
             ELSE IF existsNow /\ ~inRequest /\ ~fileNow[sb].present
             THEN \* 364-377
                  /\ call' = [call EXCEPT ![c] = [IdleCall EXCEPT !.kind = "start",
                                !.ns = ns, !.sb = sb, !.req = req, !.pc = "done",
                                !.result = "validation"]]
                  /\ cfgExists' = cfgExists \cup {ns}
                  /\ cfgFile' = [cfgFile EXCEPT ![ns] = fileNow]
             ELSE \* 352-362 or 389-399, then 402-544
                  /\ call' = [call EXCEPT ![c] = [IdleCall EXCEPT !.kind = "start",
                                !.ns = ns, !.sb = sb, !.req = req, !.pc = "assign",
                                !.cfg = MergeRequest(fileNow, sb, req)]]
                  /\ cfgExists' = cfgExists \cup {ns}
                  /\ cfgFile' = [cfgFile EXCEPT ![ns] = fileNow]
    /\ UNCHANGED <<replVars, auxVars>>
    /\ UNCHANGED <<poolSize, free, assigned, vmUp>>

\* lines 546-553: assign a port under the allocator's write lock
StartAssign(c) ==
    /\ call[c].kind = "start" /\ call[c].pc = "assign"
    /\ IF AssignablePorts(KeyOf(c)) = {}
       THEN /\ Finish(c, "resource_exhausted")
            /\ UNCHANGED <<free, assigned>>
       ELSE \E p \in AssignablePorts(KeyOf(c)) :
               /\ assign_port(KeyOf(c), p)
               /\ call' = [call EXCEPT ![c].pc = "write", ![c].port = p]
    /\ UNCHANGED <<replVars, auxVars>>
    /\ UNCHANGED <<poolSize, nsDir, cfgExists, cfgFile, vmUp>>

\* lines 557-602: rewrite the sandbox's ports in the copy and write the file;
\* the write can fail, and the handler then returns the error
StartWrite(c) ==
    /\ call[c].kind = "start" /\ call[c].pc = "write"
    /\ \E ok \in BOOLEAN :
        IF ok
        THEN LET sb == call[c].sb
                 newCfg == [call[c].cfg EXCEPT ![sb].ports =
                               RewritePorts(call[c].cfg[sb].ports, call[c].port)]
             IN /\ cfgFile' = [cfgFile EXCEPT ![call[c].ns] = newCfg]
                /\ call' = [call EXCEPT ![c].pc = "up", ![c].cfg = newCfg,
                                        ![c].wrote = newCfg[sb].ports]
        ELSE /\ Finish(c, "internal")
             /\ UNCHANGED cfgFile
    /\ UNCHANGED <<replVars, auxVars>>
    /\ UNCHANGED <<poolSize, free, assigned, nsDir, cfgExists, vmUp>>

\* lines 604-614: orchestra::up; on an error the handler returns it
StartUp(c) ==
    /\ call[c].kind = "start" /\ call[c].pc = "up"
    /\ \E ok \in BOOLEAN :
        IF ok
        THEN /\ vmUp' = vmUp \cup {KeyOf(c)}
             /\ call' = [call EXCEPT ![c].pc = "poll"]
        ELSE /\ Finish(c, "internal")
             /\ UNCHANGED vmUp
    /\ UNCHANGED <<replVars, auxVars>>
    /\ UNCHANGED <<poolSize, free, assigned, nsDir, cfgExists, cfgFile>>

\* lines 616-661: poll until running or the timeout; every outcome is Ok
StartPoll(c) ==
    /\ call[c].kind = "start" /\ call[c].pc = "poll"
    /\ Finish(c, "ok")
    /\ UNCHANGED <<replVars, auxVars>>
    /\ UNCHANGED <<poolSize, free, assigned, nsDir, cfgExists, cfgFile, vmUp>>

\* sandbox_stop_impl, lines 707-739: validate the names, verify that the
\* namespace directory and the config file exist
\* (mutant: a stop of a sandbox that is not up is refused)
StopBeginRefusesStopped(c, ns, sb) ==
    /\ CanIssue(c)
    /\ ValidNames(ns, sb)
    /\ IF ns \notin nsDir \/ ns \notin cfgExists \/ <<ns, sb>> \notin vmUp
       THEN call' = [call EXCEPT ![c] = [IdleCall EXCEPT !.kind = "stop",
                        !.ns = ns, !.sb = sb, !.pc = "done", !.result = "validation"]]
       ELSE call' = [call EXCEPT ![c] = [IdleCall EXCEPT !.kind = "stop",
                        !.ns = ns, !.sb = sb, !.pc = "down"]]
    /\ UNCHANGED <<replVars, auxVars>>
    /\ UNCHANGED <<poolSize, free, assigned, nsDir, cfgExists, cfgFile, vmUp>>

StopBegin(c, ns, sb) ==
    /\ CanIssue(c)
    /\ ValidNames(ns, sb)
    /\ IF ns \notin nsDir \/ ns \notin cfgExists
       THEN call' = [call EXCEPT ![c] = [IdleCall EXCEPT !.kind = "stop",
                        !.ns = ns, !.sb = sb, !.pc = "done", !.result = "validation"]]
       ELSE call' = [call EXCEPT ![c] = [IdleCall EXCEPT !.kind = "stop",
                        !.ns = ns, !.sb = sb, !.pc = "down"]]
    /\ UNCHANGED <<replVars, auxVars>>
    /\ UNCHANGED <<poolSize, free, assigned, nsDir, cfgExists, cfgFile, vmUp>>

\* lines 741-750: orchestra::down; on an error `?` returns it at once
StopDown(c) ==
    /\ call[c].kind = "stop" /\ call[c].pc = "down"
    /\ \E ok \in BOOLEAN :
        IF ok
        THEN /\ vmUp' = vmUp \ {KeyOf(c)}
             /\ call' = [call EXCEPT ![c].pc = "release"]
        ELSE /\ Finish(c, "internal")
             /\ UNCHANGED vmUp
    /\ UNCHANGED <<replVars, auxVars>>
    /\ UNCHANGED <<poolSize, free, assigned, nsDir, cfgExists, cfgFile>>

\* lines 752-763: release the port under the allocator's write lock
StopRelease(c) ==
    /\ call[c].kind = "stop" /\ call[c].pc = "release"
    /\ release_port(KeyOf(c))
    /\ Finish(c, "ok")
    /\ UNCHANGED <<replVars, auxVars>>
    /\ UNCHANGED <<poolSize, nsDir, cfgExists, cfgFile, vmUp>>

(***************************************************************************)
(* Part I.  The readiness poll of sandbox.start, attempt by attempt        *)
(***************************************************************************)
\* poll_sandbox_until_running: time between two attempts, in ms
POLL_INTERVAL == 20
\* poll_sandbox_until_running: number of attempts
MAX_ATTEMPTS == 2500
\* Duration::from_secs(180): the request carries an image
POLL_TIMEOUT_FIRST_PULL_SECS == 180
\* Duration::from_secs(60)
POLL_TIMEOUT_REGULAR_SECS == 60
\* the timeout of the poll, in ms
poll_timeout(image) ==
    1000 * (IF image THEN POLL_TIMEOUT_FIRST_PULL_SECS ELSE POLL_TIMEOUT_REGULAR_SECS)

\* the time one orchestra::status call takes, in ms
StatusLatencies == {0, 100}
\* what orchestra::status reports: running, not running, or an error
StatusResults == {"running", "stopped", "error"}

\* handler.rs 616-637: the timeout is chosen and the poll begins
PollBegin(c) ==
    /\ call[c].kind = "start" /\ call[c].pc = "poll"
    /\ poll.pc # "polling"
    /\ poll' = [pc |-> "polling", image |-> (call[c].req.image # "none"),
                attempt |-> 0, elapsed |-> 0, outcome |-> "none"]
    /\ UNCHANGED <<lifeVars, replVars, shut, session, serverAux, libAux>>

\* poll_sandbox_until_running, handler.rs 673-703, under the timeout of
\* 633-637: up to PollStride attempts in which every status call takes lat ms.
\* The status of the first of them is status, the status of the others
\* "stopped". The loop ends when running is seen (Ok), when the status call
\* fails (Err), or after MAX_ATTEMPTS attempts (Err); the timeout ends it
\* when poll_timeout has elapsed first.
PollAttempts(c, lat, status) ==
    /\ call[c].kind = "start" /\ call[c].pc = "poll"
    /\ poll.pc = "polling" /\ poll.outcome = "none"
    /\ LET left == poll_timeout(poll.image) - poll.elapsed
           n == IF MAX_ATTEMPTS - poll.attempt < PollStride
                THEN MAX_ATTEMPTS - poll.attempt ELSE PollStride
           each == POLL_INTERVAL + lat
       IN IF lat >= left
          THEN poll' = [poll EXCEPT !.elapsed = poll_timeout(poll.image),
                                    !.outcome = "timeout"]
          ELSE IF status = "running"
          THEN poll' = [poll EXCEPT !.attempt = @ + 1, !.elapsed = @ + lat,
                                    !.outcome = "running"]
          ELSE IF status = "error"
          THEN poll' = [poll EXCEPT !.attempt = @ + 1, !.elapsed = @ + lat,
                                    !.outcome = "status_error"]
          ELSE IF n * each >= left
          THEN poll' = [poll EXCEPT !.attempt = @ + (left \div each),
                                    !.elapsed = poll_timeout(poll.image),
                                    !.outcome = "timeout"]
          ELSE poll' = [poll EXCEPT !.attempt = @ + n, !.elapsed = @ + n * each,
                                    !.outcome = IF poll.attempt + n = MAX_ATTEMPTS
                                                THEN "max_attempts" ELSE "none"]
    /\ UNCHANGED <<lifeVars, replVars, shut, session, serverAux, libAux>>

\* handler.rs 638-661: every outcome of the poll is answered with Ok
PollReturn(c) ==
    /\ call[c].kind = "start" /\ call[c].pc = "poll"
    /\ poll.pc = "polling" /\ poll.outcome # "none"
    /\ poll' = [poll EXCEPT !.pc = "returned"]
    /\ Finish(c, "ok")
    /\ UNCHANGED <<replVars, shut, session, serverAux, libAux>>
    /\ UNCHANGED <<poolSize, free, assigned, nsDir, cfgExists, cfgFile, vmUp>>

(***************************************************************************)
(* Part II.  REPL reactor and sub-engines                                  *)
(***************************************************************************)
Evals == 1..MaxEvals
Languages == {"python", "rust"}
\* what the submitted code does: "print" writes one line to stdout, "warn"
\* writes one line to stderr, "bad" does not compile (Rust), "loop" never
\* terminates, "exit" ends the python3 process (e.g. exit())
PythonCodes == {"print", "warn", "loop"}
RustCodes == {"print", "warn", "bad", "loop"}
\* timeout of an eval in seconds; NoTimeout is None
NoTimeout == 0
Timeouts == {NoTimeout, 2}

NoEval == [lang |-> "python", code |-> "print", timeout |-> NoTimeout, rx |-> "open"]

\* the end-of-execution marker of eval i: "eoe_" and 20 random alphanumerics,
\* taken to be different for different evals
Marker(i) == <<"eoe", i>>
\* the line that the code of eval i prints
Output(i) == <<"out", i>>
\* format!("{:?}", event): the Debug form of a stdout event is never the
\* text of the line itself
DebugFormat(event) == <<"dbg", event>>

\* messages on a response channel
LineMsg(i, stream, text) == [t |-> "Line", id |-> i, stream |-> stream, text |-> text]
DoneMsg(i) == [t |-> "Done", id |-> i, stream |-> "", text |-> <<>>]
\* the sub-engine's "Execution timed out after N seconds"
TimeoutMsg(i, n) == [t |-> "Error", id |-> i, stream |-> "",
                     text |-> <<"Execution timed out after", n, "seconds">>]
\* the reactor's Error with e.to_string() of the error that eval returned
EngineErrorMsg(i, e) == [t |-> "Error", id |-> i, stream |-> "", text |-> <<"engine error", e>>]

\* the response channels after msgs were sent on the channel of eval i: a
\* send on a channel whose receiver is dropped fails, and the senders ignore
\* the failure (let _ = ...)
Deliver(i, msgs) ==
    [resp EXCEPT ![i] = IF ev[i].rx = "dropped" THEN @ ELSE @ \o msgs]

Send(i, msg) == resp' = Deliver(i, <<msg>>)

NoSlot == [id |-> 0, completed |-> FALSE]

\* Cmd::Shutdown in the reactor's command channel (the evals in it are ids)
ShutdownCmd == 0

\* EngineHandle::eval, engine.rs 103-124: a client puts Cmd::Eval into the
\* reactor's channel; the send succeeds as long as the reactor holds the
\* receiver
Submit(lang, code, tmo) ==
    /\ nSub < MaxEvals
    /\ shut.reactor # "stopped"
    /\ nSub' = nSub + 1
    /\ ev' = [ev EXCEPT ![nSub + 1] = [lang |-> lang, code |-> code, timeout |-> tmo,
                                       rx |-> "open"]]
    /\ cmdQ' = Append(cmdQ, nSub + 1)
    /\ UNCHANGED <<rCur, returned, resp, timedOut, py, pyProc, pyStdout, pyStderr,
                   rs, rsStdoutEv, rsStderrEv, rsOut>>
    /\ UNCHANGED <<lifeVars, auxVars>>

\* the client of eval i, which is in flight, goes away: the receiver of the
\* eval's response channel is dropped (engine.rs 112, 126-162)
\* (mutant: the eval in flight is cancelled with its client: the slot is
\* cleared and eval() returns)
ClientDropCancels(i) ==
    /\ i = rCur /\ ev[i].rx = "open"
    /\ ev' = [ev EXCEPT ![i].rx = "dropped"]
    /\ IF ev[i].lang = "python"
       THEN /\ py' = [py EXCEPT !.req = 0, !.pc = "idle", !.slot = NoSlot,
                                !.done = "cancelled"]
            /\ UNCHANGED rs
       ELSE /\ rs' = [rs EXCEPT !.req = 0, !.pc = "idle", !.cur = 0, !.slot = NoSlot,
                                !.done = "cancelled"]
            /\ UNCHANGED py
    /\ UNCHANGED <<nSub, cmdQ, rCur, returned, resp, timedOut, pyProc,
                   pyStdout, pyStderr, rsStdoutEv, rsStderrEv, rsOut>>
    /\ UNCHANGED <<lifeVars, auxVars>>

ClientDrop(i) ==
    /\ i = rCur /\ ev[i].rx = "open"
    /\ ev' = [ev EXCEPT ![i].rx = "dropped"]
    /\ UNCHANGED <<nSub, cmdQ, rCur, returned, resp, timedOut, py, pyProc,
                   pyStdout, pyStderr, rs, rsStdoutEv, rsStderrEv, rsOut>>
    /\ UNCHANGED <<lifeVars, auxVars>>

\* start_engines, engine.rs 210-251: the reactor receives the next command
\* only when it is not awaiting an eval; it sends the request to the
\* sub-engine of the eval's language (python.rs 350-368, rust.rs 287-304) and
\* awaits the result
\* (mutant: the reactor hands the eval over as soon as the sub-engine of its
\* language is idle, without awaiting the eval in progress)
ReactorDispatchPerLanguage ==
    /\ shut.reactor = "running"
    /\ cmdQ # <<>>
    /\ Head(cmdQ) # ShutdownCmd
    /\ LET i == Head(cmdQ)
       IN /\ IF ev[i].lang = "python"
             THEN py.req = 0 /\ py.pc = "idle" /\ py.done = "none"
             ELSE rs.req = 0 /\ rs.pc = "idle" /\ rs.done = "none"
          /\ cmdQ' = Tail(cmdQ)
          /\ rCur' = i
          /\ IF ev[i].lang = "python"
             THEN py' = [py EXCEPT !.req = i] /\ UNCHANGED rs
             ELSE rs' = [rs EXCEPT !.req = i] /\ UNCHANGED py
    /\ UNCHANGED <<nSub, ev, returned, resp, timedOut, pyProc, pyStdout, pyStderr,
                   rsStdoutEv, rsStderrEv, rsOut>>
    /\ UNCHANGED <<lifeVars, auxVars>>

ReactorDispatch ==
    /\ shut.reactor = "running"
    /\ rCur = 0
    /\ cmdQ # <<>>
    /\ Head(cmdQ) # ShutdownCmd
    /\ LET i == Head(cmdQ)
       IN /\ cmdQ' = Tail(cmdQ)
          /\ rCur' = i
          /\ IF ev[i].lang = "python"
             THEN py' = [py EXCEPT !.req = i] /\ UNCHANGED rs
             ELSE rs' = [rs EXCEPT !.req = i] /\ UNCHANGED py
    /\ UNCHANGED <<nSub, ev, returned, resp, timedOut, pyProc, pyStdout, pyStderr,
                   rsStdoutEv, rsStderrEv, rsOut>>
    /\ UNCHANGED <<lifeVars, auxVars>>

\* engine.rs 220-227 and 242-249: eval() returned; on Err the reactor sends
\* Resp::Error with the eval's id
ReactorResume ==
    /\ rCur # 0
    /\ LET i == rCur
           res == IF ev[i].lang = "python" THEN py.done ELSE rs.done
       IN /\ res # "none"
          /\ IF res = "ok"
             THEN UNCHANGED resp
             ELSE Send(i, EngineErrorMsg(i, res))
          /\ IF ev[i].lang = "python"
             THEN py' = [py EXCEPT !.done = "none"] /\ UNCHANGED rs
             ELSE rs' = [rs EXCEPT !.done = "none"] /\ UNCHANGED py
          /\ returned' = returned \cup {i}
    /\ rCur' = 0
    /\ UNCHANGED <<nSub, ev, cmdQ, timedOut, pyProc, pyStdout, pyStderr,
                   rsStdoutEv, rsStderrEv, rsOut>>
    /\ UNCHANGED <<lifeVars, auxVars>>

\* start_engines, engine.rs 203-207, and initialize_engines, 281-305: the
\* reactor task creates and initializes every sub-engine before it receives
\* its first command. PythonEngine::initialize spawns the python3 process
\* (python.rs 78-95), RustEngine::initialize spawns the worker thread that
\* creates the EvalContext (rust.rs 72-83).
InitializeEngines ==
    /\ shut.reactor = "init"
    /\ shut' = [shut EXCEPT !.reactor = "running"]
    /\ session' = Languages
    /\ UNCHANGED <<lifeVars, replVars, poll, serverAux, libAux>>

\* EngineHandle::eval, engine.rs 116-124: the reactor has ended and dropped
\* the receiver, the send fails and eval returns EngineError::Unavailable
SubmitUnavailable(lang, code, tmo) ==
    /\ nSub < MaxEvals
    /\ shut.reactor = "stopped"
    /\ nSub' = nSub + 1
    /\ ev' = [ev EXCEPT ![nSub + 1] = [lang |-> lang, code |-> code, timeout |-> tmo,
                                       rx |-> "open"]]
    /\ shut' = [shut EXCEPT !.unavailable = @ \cup {nSub + 1}]
    /\ UNCHANGED <<cmdQ, rCur, returned, resp, timedOut, py, pyProc, pyStdout, pyStderr,
                   rs, rsStdoutEv, rsStderrEv, rsOut>>
    /\ UNCHANGED <<lifeVars, poll, session, serverAux, libAux>>

\* EngineHandle::shutdown, engine.rs 173-179: Cmd::Shutdown is put into the
\* reactor's channel and the call returns Ok; when the reactor has ended the
\* send fails and the call returns EngineError::Unavailable
HandleShutdown ==
    /\ shut.calls < MaxShutdowns
    /\ IF shut.reactor # "stopped"
       THEN /\ cmdQ' = Append(cmdQ, ShutdownCmd)
            /\ shut' = [shut EXCEPT !.calls = @ + 1]
       ELSE /\ shut' = [shut EXCEPT !.calls = @ + 1, !.refused = @ + 1]
            /\ UNCHANGED cmdQ
    /\ UNCHANGED <<nSub, ev, rCur, returned, resp, timedOut, py, pyProc, pyStdout,
                   pyStderr, rs, rsStdoutEv, rsStderrEv, rsOut>>
    /\ UNCHANGED <<lifeVars, poll, session, serverAux, libAux>>

\* the evals whose Cmd::Eval is in the sequence q of commands
EvalsIn(q) == {q[k] : k \in DOMAIN q} \ {ShutdownCmd}

\* start_engines, engine.rs 252-263: the reactor receives Cmd::Shutdown, shuts
\* the sub-engines down and leaves its loop. Python: the process manager
\* leaves its loop and kills the process (python.rs 228-230, 332-334,
\* 376-387); Rust: the worker's command sender is dropped (rust.rs 312-315).
\* The receiver of the command channel is dropped with the commands that are
\* still in it, and with them the senders of their response channels.
ReactorShutdown ==
    /\ shut.reactor = "running"
    /\ rCur = 0
    /\ cmdQ # <<>>
    /\ Head(cmdQ) = ShutdownCmd
    /\ shut' = [shut EXCEPT !.reactor = "stopped",
                            !.discarded = @ \cup EvalsIn(Tail(cmdQ))]
    /\ cmdQ' = <<>>
    /\ py' = [py EXCEPT !.pc = "shutdown"]
    /\ pyProc' = [pyProc EXCEPT !.stdin = <<>>, !.run = 0]
    /\ rs' = [rs EXCEPT !.pc = "shutdown"]
    /\ session' = {}
    /\ UNCHANGED <<nSub, ev, rCur, returned, resp, timedOut, pyStdout, pyStderr,
                   rsStdoutEv, rsStderrEv, rsOut>>
    /\ UNCHANGED <<lifeVars, poll, serverAux, libAux>>

(***************************************************************************)
(* Part II.  Python sub-engine                                             *)
(***************************************************************************)
\* python.rs 233-277: take the request, generate the marker, fill the
\* current-execution slot, write the code and the print of the marker to the
\* process's stdin
\* (mutant: a new python3 process is spawned for the eval)
PyEvalBeginRespawns ==
    /\ py.pc = "idle" /\ py.req # 0
    /\ "python" \in session
    /\ py' = [py EXCEPT !.req = 0, !.pc = "wait",
                        !.slot = [id |-> py.req, completed |-> FALSE]]
    /\ pyProc' = [stdin |-> <<py.req>>, run |-> 0, env |-> <<>>]
    /\ UNCHANGED <<nSub, ev, cmdQ, rCur, returned, resp, timedOut, pyStdout, pyStderr,
                   rs, rsStdoutEv, rsStderrEv, rsOut>>
    /\ UNCHANGED <<lifeVars, auxVars>>

PyEvalBegin ==
    /\ py.pc = "idle" /\ py.req # 0
    /\ "python" \in session
    /\ py' = [py EXCEPT !.req = 0, !.pc = "wait",
                        !.slot = [id |-> py.req, completed |-> FALSE]]
    /\ pyProc' = [pyProc EXCEPT !.stdin = Append(@, py.req)]
    /\ UNCHANGED <<nSub, ev, cmdQ, rCur, returned, resp, timedOut, pyStdout, pyStderr,
                   rs, rsStdoutEv, rsStderrEv, rsOut>>
    /\ UNCHANGED <<lifeVars, auxVars>>

\* python.rs 280-288, 303-319: the wait loop sees completed; the slot is
\* cleared and Ok is sent to the caller
PyEvalCompleted ==
    /\ py.pc = "wait" /\ py.slot.completed
    /\ py' = [py EXCEPT !.pc = "idle", !.slot = NoSlot, !.done = "ok"]
    /\ UNCHANGED <<nSub, ev, cmdQ, rCur, returned, resp, timedOut, pyProc, pyStdout,
                   pyStderr, rs, rsStdoutEv, rsStderrEv, rsOut>>
    /\ UNCHANGED <<lifeVars, auxVars>>

\* python.rs 291-301: the timeout elapses before the wait loop has seen
\* completed (the loop looks every 50 ms): Resp::Error is sent
PyEvalTimeout ==
    /\ py.pc = "wait" /\ ev[py.slot.id].timeout # NoTimeout
    /\ Send(py.slot.id, TimeoutMsg(py.slot.id, ev[py.slot.id].timeout))
    /\ timedOut' = [timedOut EXCEPT ![py.slot.id] =
                       IF py.slot.completed THEN "seen" ELSE "unseen"]
    /\ py' = [py EXCEPT !.pc = "timedout"]
    /\ UNCHANGED <<nSub, ev, cmdQ, rCur, returned, pyProc, pyStdout, pyStderr,
                   rs, rsStdoutEv, rsStderrEv, rsOut>>
    /\ UNCHANGED <<lifeVars, auxVars>>

\* python.rs 300, 312-319: after the timeout the slot is cleared and
\* Err(Timeout) is sent to the caller; the process is neither killed nor
\* restarted
PyEvalClear ==
    /\ py.pc = "timedout"
    /\ py' = [py EXCEPT !.pc = "idle", !.slot = NoSlot, !.done = "timeout"]
    /\ UNCHANGED <<nSub, ev, cmdQ, rCur, returned, resp, timedOut, pyProc, pyStdout,
                   pyStderr, rs, rsStdoutEv, rsStderrEv, rsOut>>
    /\ UNCHANGED <<lifeVars, auxVars>>

\* the python3 process (python.rs 90-95) reads the next code from its stdin
\* and runs it: the code prints its line, or never terminates
PyRunCode ==
    /\ pyProc.run = 0 /\ pyProc.stdin # <<>>
    /\ LET i == Head(pyProc.stdin)
       IN /\ pyProc' = [pyProc EXCEPT !.stdin = Tail(@), !.run = i,
                                      !.env = Append(@, i)]
          /\ pyStdout' = IF ev[i].code = "print" THEN Append(pyStdout, Output(i))
                         ELSE pyStdout
          /\ pyStderr' = IF ev[i].code = "warn" THEN Append(pyStderr, Output(i))
                         ELSE pyStderr
    /\ UNCHANGED <<nSub, ev, cmdQ, rCur, returned, resp, timedOut, py,
                   rs, rsStdoutEv, rsStderrEv, rsOut>>
    /\ UNCHANGED <<lifeVars, auxVars>>

\* the code has terminated and the appended print('MARKER') runs
\* (python.rs 267)
PyRunMarker ==
    /\ pyProc.run # 0 /\ ev[pyProc.run].code \notin {"loop", "exit"}
    /\ pyStdout' = Append(pyStdout, Marker(pyProc.run))
    /\ pyProc' = [pyProc EXCEPT !.run = 0]
    /\ UNCHANGED <<nSub, ev, cmdQ, rCur, returned, resp, timedOut, py, pyStderr,
                   rs, rsStdoutEv, rsStderrEv, rsOut>>
    /\ UNCHANGED <<lifeVars, auxVars>>

\* python.rs 142-184, the stdout reader: a line that is the marker of the
\* slot sets completed and sends Done; any other line is sent as a Line with
\* the slot's id when the slot is filled, and is dropped when it is empty
PyStdoutReader ==
    /\ pyStdout # <<>>
    /\ LET line == Head(pyStdout)
       IN IF py.slot.id # 0 /\ line = Marker(py.slot.id)
          THEN /\ py' = [py EXCEPT !.slot.completed = TRUE]
               /\ Send(py.slot.id, DoneMsg(py.slot.id))
          ELSE IF py.slot.id # 0
          THEN /\ Send(py.slot.id, LineMsg(py.slot.id, "stdout", line))
               /\ UNCHANGED py
          ELSE UNCHANGED <<py, resp>>
    /\ pyStdout' = Tail(pyStdout)
    /\ UNCHANGED <<nSub, ev, cmdQ, rCur, returned, timedOut, pyProc, pyStderr,
                   rs, rsStdoutEv, rsStderrEv, rsOut>>
    /\ UNCHANGED <<lifeVars, auxVars>>

\* the code of the eval that the python3 process runs ends the process: the
\* appended print of the marker never runs, and the pipes of the process
\* reach end of file
PyProcessExit ==
    /\ pyProc.run # 0 /\ ev[pyProc.run].code = "exit"
    /\ "python" \in session
    /\ session' = session \ {"python"}
    /\ UNCHANGED <<lifeVars, replVars, poll, shut, serverAux, libAux>>
\* python.rs 233, 268-276, 310-317: the request is taken while the process
\* is gone: write_all to the closed pipe fails, the slot is cleared and
\* Err(Evaluation) is sent to the caller
PyEvalWriteFails ==
    /\ py.pc = "idle" /\ py.req # 0
    /\ "python" \notin session
    /\ py' = [py EXCEPT !.req = 0, !.slot = NoSlot, !.done = "evaluation"]
    /\ UNCHANGED <<nSub, ev, cmdQ, rCur, returned, resp, timedOut, pyProc, pyStdout,
                   pyStderr, rs, rsStdoutEv, rsStderrEv, rsOut>>
    /\ UNCHANGED <<lifeVars, auxVars>>
\* python.rs 179-186, 212-218, 319-326: a reader has read every line, sees
\* end of file and signals it; the select loop receives the signal and ends.
\* The signal is received by the select loop only: the wait loop of an eval
\* (277-285) is awaited inside the eval arm and looks at completed alone.
PyReaderDone ==
    /\ py.pc = "idle"
    /\ "python" \notin session /\ shut.reactor = "running"
    /\ pyStdout = <<>> \/ pyStderr = <<>>
    /\ py' = [py EXCEPT !.pc = "ended"]
    /\ UNCHANGED <<nSub, ev, cmdQ, rCur, returned, resp, timedOut, pyProc, pyStdout,
                   pyStderr, rs, rsStdoutEv, rsStderrEv, rsOut>>
    /\ UNCHANGED <<lifeVars, auxVars>>
\* python.rs 355-366: the select loop has ended and dropped the receiver of
\* the eval requests: the send fails and eval returns Err(Unavailable)
PyEvalChannelClosed ==
    /\ py.pc = "ended" /\ py.req # 0
    /\ py' = [py EXCEPT !.req = 0, !.done = "unavailable"]
    /\ UNCHANGED <<nSub, ev, cmdQ, rCur, returned, resp, timedOut, pyProc, pyStdout,
                   pyStderr, rs, rsStdoutEv, rsStderrEv, rsOut>>
    /\ UNCHANGED <<lifeVars, auxVars>>
\* python.rs 199-217, the stderr reader
PyStderrReader ==
    /\ pyStderr # <<>>
    /\ LET line == Head(pyStderr)
       IN IF py.slot.id # 0
          THEN Send(py.slot.id, LineMsg(py.slot.id, "stderr", line))
          ELSE UNCHANGED resp
    /\ pyStderr' = Tail(pyStderr)
    /\ UNCHANGED <<nSub, ev, cmdQ, rCur, returned, timedOut, py, pyProc, pyStdout,
                   rs, rsStdoutEv, rsStderrEv, rsOut>>
    /\ UNCHANGED <<lifeVars, auxVars>>

(***************************************************************************)
(* Part II.  Rust sub-engine                                               *)
(***************************************************************************)
\* rust.rs 164-201: the worker takes the command, fills the slot and evaluates
\* the code with the println! of the marker appended; ctx.eval returns when
\* the code has run (Ok) or did not compile (Err); code that never terminates
\* keeps the worker in ctx.eval
RsEvalBegin ==
    /\ rs.pc = "idle" /\ rs.req # 0
    /\ LET i == rs.req
           code == ev[i].code
       IN /\ rs' = [rs EXCEPT !.req = 0, !.cur = i, !.ctx = Append(@, i),
                       !.pc = IF code = "loop" THEN "stuck" ELSE "drain",
                       !.evalOk = (code # "bad"),
                       !.slot = [id |-> i, completed |-> FALSE]]
          /\ rsStdoutEv' =
                IF code = "print" THEN rsStdoutEv \o <<Output(i), Marker(i)>>
                ELSE IF code = "warn" THEN Append(rsStdoutEv, Marker(i))
                ELSE rsStdoutEv
          /\ rsStderrEv' = IF code = "warn" THEN Append(rsStderrEv, Output(i))
                           ELSE rsStderrEv
    /\ UNCHANGED <<nSub, ev, cmdQ, rCur, returned, resp, timedOut, py, pyProc,
                   pyStdout, pyStderr, rsOut>>
    /\ UNCHANGED <<lifeVars, auxVars>>

\* rust.rs 110-131, the stdout helper thread: the Debug form of the event is
\* compared with the marker; what is not the marker goes to out_tx
RsStdoutHelper ==
    /\ rsStdoutEv # <<>>
    /\ LET output == DebugFormat(Head(rsStdoutEv))
       IN IF rs.slot.id # 0 /\ output = Marker(rs.slot.id)
          THEN /\ rs' = [rs EXCEPT !.slot.completed = TRUE]
               /\ UNCHANGED rsOut
          ELSE /\ rsOut' = Append(rsOut, <<"stdout", output>>)
               /\ UNCHANGED rs
    /\ rsStdoutEv' = Tail(rsStdoutEv)
    /\ UNCHANGED <<nSub, ev, cmdQ, rCur, returned, resp, timedOut, py, pyProc,
                   pyStdout, pyStderr, rsStderrEv>>
    /\ UNCHANGED <<lifeVars, auxVars>>

\* rust.rs 138-156, the stderr helper thread: the event is a String
RsStderrHelper ==
    /\ rsStderrEv # <<>>
    /\ LET event == Head(rsStderrEv)
       IN IF rs.slot.id # 0 /\ event = Marker(rs.slot.id)
          THEN /\ rs' = [rs EXCEPT !.slot.completed = TRUE]
               /\ UNCHANGED rsOut
          ELSE /\ rsOut' = Append(rsOut, <<"stderr", event>>)
               /\ UNCHANGED rs
    /\ rsStderrEv' = Tail(rsStderrEv)
    /\ UNCHANGED <<nSub, ev, cmdQ, rCur, returned, resp, timedOut, py, pyProc,
                   pyStdout, pyStderr, rsStdoutEv>>
    /\ UNCHANGED <<lifeVars, auxVars>>

\* the Lines for everything that is in out_rx now, with the id of the
\* command in progress
RECURSIVE DrainLines(_, _)
DrainLines(i, out) ==
    IF out = <<>> THEN <<>>
    ELSE <<LineMsg(i, Head(out)[1], Head(out)[2])>> \o DrainLines(i, Tail(out))

\* rust.rs 203-216 and 262-272: drain out_rx without blocking and send the
\* lines; after an evaluation error send Done, return the error and clear the
\* slot
RsDrain ==
    /\ rs.pc = "drain"
    /\ LET i == rs.cur
       IN IF rs.evalOk
          THEN /\ resp' = Deliver(i, DrainLines(i, rsOut))
               /\ rs' = [rs EXCEPT !.pc = "wait"]
          ELSE /\ resp' = Deliver(i, DrainLines(i, rsOut) \o <<DoneMsg(i)>>)
               /\ rs' = [rs EXCEPT !.pc = "idle", !.cur = 0, !.slot = NoSlot,
                                   !.done = "evaluation"]
    /\ rsOut' = <<>>
    /\ UNCHANGED <<nSub, ev, cmdQ, rCur, returned, timedOut, py, pyProc,
                   pyStdout, pyStderr, rsStdoutEv, rsStderrEv>>
    /\ UNCHANGED <<lifeVars, auxVars>>

\* rust.rs 218-261 and 268-272: wait for completed or for the timeout; then
\* Error and Err(Timeout), or Done and Ok; clear the slot
RsWaitEnd ==
    /\ rs.pc = "wait"
    /\ rs.slot.completed \/ ev[rs.cur].timeout # NoTimeout
    /\ \E fired \in BOOLEAN :
          /\ fired => ev[rs.cur].timeout # NoTimeout
          /\ ~fired => rs.slot.completed
          /\ IF fired
             THEN /\ Send(rs.cur, TimeoutMsg(rs.cur, ev[rs.cur].timeout))
                  /\ timedOut' = [timedOut EXCEPT ![rs.cur] =
                                     IF rs.slot.completed THEN "seen" ELSE "unseen"]
                  /\ rs' = [rs EXCEPT !.pc = "idle", !.cur = 0, !.slot = NoSlot,
                                      !.done = "timeout"]
             ELSE /\ Send(rs.cur, DoneMsg(rs.cur))
                  /\ UNCHANGED timedOut
                  /\ rs' = [rs EXCEPT !.pc = "idle", !.cur = 0, !.slot = NoSlot,
                                      !.done = "ok"]
    /\ UNCHANGED <<nSub, ev, cmdQ, rCur, returned, py, pyProc,
                   pyStdout, pyStderr, rsStdoutEv, rsStderrEv, rsOut>>
    /\ UNCHANGED <<lifeVars, auxVars>>

(***************************************************************************)
(* Part III.  The server's JSON-RPC endpoint and the portal forwarder      *)
(***************************************************************************)
JSONRPC_VERSION == "2.0"
Versions == {"2.0", "1.0"}
\* the methods of the server's dispatcher (handler.rs 86, 104, 122, 142)
LifecycleMethods == {"sandbox.start", "sandbox.stop", "sandbox.metrics.get"}
ForwardedMethods == {"sandbox.repl.run", "sandbox.command.run"}
\* the methods of the portal's dispatcher (portal handler.rs 51, 61)
PortalMethods == {"sandbox.run", "sandbox.command.run"}
\* the methods that the Rust SDK sends (lib.rs 247, 324, 347; metrics.rs 99;
\* command.rs 149)
SdkMethods == {"sandbox.start", "sandbox.stop", "sandbox.repl.run", "sandbox.metrics.get",
               "sandbox.command.execute"}
Methods == LifecycleMethods \cup ForwardedMethods \cup PortalMethods \cup SdkMethods
              \cup {"no.such.method"}
\* the params of a request: an object with the fields of the method's params
\* type ("sandbox" and "namespace" among them), an object that lacks
\* "sandbox", or no object at all
ParamShapes == {"full", "no_sandbox", "not_object"}
RequestIds == {1, 2}
JsonRpcRequests == [jsonrpc : Versions, method : Methods, params : ParamShapes,
                    id : RequestIds]

\* HTTP status codes
OK == 200
BAD_REQUEST == 400
NOT_FOUND == 404
HttpStatuses == {OK, NOT_FOUND, 500}
is_success(status) == status \in 200..299

\* JSON-RPC error codes
INVALID_REQUEST == -32600
METHOD_NOT_FOUND == -32601
INVALID_PARAMS == -32602
SERVER_ERROR == -32000

\* an error message: its text and, when they are inlined, the HTTP status
\* and the body of the portal's response
Message(text, status, body) == [text |-> text, status |-> status, body |-> body]
Text(text) == Message(text, 0, "none")
NoError == [code |-> 0, message |-> Text(<<>>)]
\* JsonRpcResponse::success and JsonRpcResponse::error
JsonRpcSuccess(result, id) ==
    [jsonrpc |-> JSONRPC_VERSION, result |-> result, error |-> NoError, id |-> id]
JsonRpcErrorResponse(code, message, id) ==
    [jsonrpc |-> JSONRPC_VERSION, result |-> <<>>,
     error |-> [code |-> code, message |-> message], id |-> id]

NoBody == JsonRpcSuccess(<<>>, 0)
NoReply == [status |-> 0, body |-> NoBody]

\* the response of a handler that returned Err(ServerError): a validation
\* error is answered with INVALID_PARAMS, every other error with SERVER_ERROR
ErrorReply(kind, message, id) ==
    IF kind = "validation"
    THEN [status |-> BAD_REQUEST, body |-> JsonRpcErrorResponse(INVALID_PARAMS, message, id)]
    ELSE [status |-> 500, body |-> JsonRpcErrorResponse(SERVER_ERROR, message, id)]

\* .json(&request), handler.rs 267-268: the body of the POST is the request
\* serialized field by field
\* (mutant: the id is not serialized)
SerializeRequestWithoutId(request) ==
    [jsonrpc |-> request.jsonrpc, method |-> request.method, params |-> request.params,
     id |-> 0]

SerializeRequest(request) ==
    [jsonrpc |-> request.jsonrpc, method |-> request.method, params |-> request.params,
     id |-> request.id]

\* response.json::<JsonRpcResponse>() and Json(portal_response), handler.rs
\* 290-295: the portal's response is parsed and serialized again
ParseResponse(body) ==
    [jsonrpc |-> body.jsonrpc, result |-> body.result, error |-> body.error, id |-> body.id]

\* the portal's json_rpc_handler, portal handler.rs 28-82: what it answers to
\* the request in the body of a POST
PortalHandler(request) ==
    IF request.jsonrpc # JSONRPC_VERSION
    THEN [status |-> BAD_REQUEST,
          body |-> JsonRpcErrorResponse(INVALID_REQUEST, Text(<<"Invalid or missing jsonrpc">>),
                                        request.id)]
    ELSE IF request.method \in PortalMethods
    THEN [status |-> OK,
          body |-> JsonRpcSuccess(<<"called", request.method, request.params>>, request.id)]
    ELSE [status |-> NOT_FOUND,
          body |-> JsonRpcErrorResponse(METHOD_NOT_FOUND, Text(<<"Method not found", request.method>>),
                                        request.id)]

\* pc: "idle", "probe" (the forwarder probes the portal), "post" (the portal
\* was reached), "done" (the response was returned); retry_count: the failed
\* probes; heads: the HEAD requests sent; head_status: the status of the
\* response to a probe (0: none); posted: the bodies POSTed to the
\* portal; ran: the lifecycle implementation that was called; portal: the
\* portal's answer to the POST; reply: the response to the client
NoRpc == [pc |-> "idle", req |-> [jsonrpc |-> "2.0", method |-> "no.such.method",
                                  params |-> "full", id |-> 1],
          retry_count |-> 0, heads |-> 0, head_status |-> 0, posted |-> <<>>, ran |-> "none",
          portal |-> NoReply, reply |-> NoReply]

\* json_rpc_handler, handler.rs 62-159, and the head of forward_rpc_to_portal,
\* 161-207: what the handler does with the request before any probe is sent.
\* hasPortal: the sandbox of the request has a portal port.
\* (mutant: the method is looked at before the version)
DispatchMethodFirst(request, hasPortal) ==
    IF request.method \notin LifecycleMethods \cup ForwardedMethods
    THEN [next |-> "done", ran |-> "none",
          reply |-> [status |-> NOT_FOUND,
                     body |-> JsonRpcErrorResponse(METHOD_NOT_FOUND,
                                 Text(<<"Method not found", request.method>>), request.id)]]
    ELSE IF request.jsonrpc # JSONRPC_VERSION
    THEN [next |-> "done", ran |-> "none",
          reply |-> [status |-> BAD_REQUEST,
                     body |-> JsonRpcErrorResponse(INVALID_REQUEST,
                                 Text(<<"Invalid or missing jsonrpc">>), request.id)]]
    ELSE IF request.method \in LifecycleMethods
    THEN IF request.params # "full"
         THEN [next |-> "done", ran |-> "none",
               reply |-> ErrorReply("validation", Text(<<"Invalid params for", request.method>>),
                                    request.id)]
         ELSE [next |-> "done", ran |-> request.method,
               reply |-> [status |-> OK,
                          body |-> JsonRpcSuccess(<<"result of", request.method>>, request.id)]]
    ELSE IF request.params # "full"
    THEN [next |-> "done", ran |-> "none",
          reply |-> ErrorReply("validation", Text(<<"Missing parameter for portal request">>),
                               request.id)]
    ELSE IF ~hasPortal
    THEN [next |-> "done", ran |-> "none",
          reply |-> ErrorReply("internal", Text(<<"No portal port for sandbox">>), request.id)]
    ELSE [next |-> "probe", ran |-> "none", reply |-> NoReply]

Dispatch(request, hasPortal) ==
    IF request.jsonrpc # JSONRPC_VERSION
    THEN \* 69-80
         [next |-> "done", ran |-> "none",
          reply |-> [status |-> BAD_REQUEST,
                     body |-> JsonRpcErrorResponse(INVALID_REQUEST,
                                 Text(<<"Invalid or missing jsonrpc">>), request.id)]]
    ELSE IF request.method \in LifecycleMethods
    THEN \* 86-140
         IF request.params # "full"
         THEN [next |-> "done", ran |-> "none",
               reply |-> ErrorReply("validation", Text(<<"Invalid params for", request.method>>),
                                    request.id)]
         ELSE [next |-> "done", ran |-> request.method,
               reply |-> [status |-> OK,
                          body |-> JsonRpcSuccess(<<"result of", request.method>>, request.id)]]
    ELSE IF request.method \in ForwardedMethods
    THEN \* 142-145, 171-207
         IF request.params # "full"
         THEN [next |-> "done", ran |-> "none",
               reply |-> ErrorReply("validation", Text(<<"Missing parameter for portal request">>),
                                    request.id)]
         ELSE IF ~hasPortal
         THEN [next |-> "done", ran |-> "none",
               reply |-> ErrorReply("internal", Text(<<"No portal port for sandbox">>), request.id)]
         ELSE [next |-> "probe", ran |-> "none", reply |-> NoReply]
    ELSE \* 147-158
         [next |-> "done", ran |-> "none",
          reply |-> [status |-> NOT_FOUND,
                     body |-> JsonRpcErrorResponse(METHOD_NOT_FOUND,
                                 Text(<<"Method not found", request.method>>), request.id)]]

\* the endpoint receives a request (one request is followed at a time)
RpcHandle(request, hasPortal) ==
    /\ rpc.pc \in {"idle", "done"}
    /\ LET d == Dispatch(request, hasPortal)
       IN rpc' = [NoRpc EXCEPT !.pc = d.next, !.req = request, !.ran = d.ran,
                               !.reply = d.reply]
    /\ UNCHANGED <<lifeVars, replVars, portalAux, check, metrics, libAux>>

\* handler.rs 216-217
MAX_RETRIES == 10000

\* the numbers of failing probes that are taken in one step
FailRuns == {ProbeStride, MAX_RETRIES - 1}

\* the probing loop, handler.rs 220-263. Either the next probe gets an HTTP
\* response, whatever its status is, and ends the loop, or the next probes,
\* at most run of them, all fail. When retry_count has reached MAX_RETRIES the
\* forwarder returns an internal error.
\* (mutant: after MAX_RETRIES failed probes the forwarder goes on to the POST)
ForwardProbesThenPostsAnyway(answered, status, run) ==
    /\ rpc.pc = "probe"
    /\ LET left == MAX_RETRIES - rpc.retry_count
           n == IF left < run THEN left ELSE run
       IN IF answered
          THEN rpc' = [rpc EXCEPT !.heads = @ + 1, !.head_status = status, !.pc = "post"]
          ELSE rpc' = [rpc EXCEPT !.heads = @ + n, !.retry_count = @ + n,
                                  !.pc = IF rpc.retry_count + n >= MAX_RETRIES
                                         THEN "post" ELSE "probe"]
    /\ UNCHANGED <<lifeVars, replVars, portalAux, check, metrics, libAux>>

ForwardProbes(answered, status, run) ==
    /\ rpc.pc = "probe"
    /\ LET left == MAX_RETRIES - rpc.retry_count
           n == IF left < run THEN left ELSE run
       IN IF answered
          THEN rpc' = [rpc EXCEPT !.heads = @ + 1, !.head_status = status, !.pc = "post"]
          ELSE IF rpc.retry_count + n >= MAX_RETRIES
          THEN rpc' = [rpc EXCEPT !.heads = @ + n, !.retry_count = @ + n, !.pc = "done",
                          !.reply = ErrorReply("internal",
                                       Text(<<"Failed to connect to portal after retries">>),
                                       rpc.req.id)]
          ELSE rpc' = [rpc EXCEPT !.heads = @ + n, !.retry_count = @ + n]
    /\ UNCHANGED <<lifeVars, replVars, portalAux, check, metrics, libAux>>

\* handler.rs 265-296: POST the request; sent tells whether the POST got an
\* HTTP response. A response with a success status is parsed and returned,
\* any other becomes an internal error with the status and the body.
ForwardPost(sent) ==
    /\ rpc.pc = "post"
    /\ LET body == SerializeRequest(rpc.req)
           response == PortalHandler(body)
       IN IF ~sent
          THEN rpc' = [rpc EXCEPT !.pc = "done", !.posted = Append(@, body),
                          !.reply = ErrorReply("internal", Text(<<"Failed to forward RPC to portal">>),
                                               rpc.req.id)]
          ELSE IF ~is_success(response.status)
          THEN rpc' = [rpc EXCEPT !.pc = "done", !.posted = Append(@, body),
                          !.portal = response,
                          !.reply = ErrorReply("internal",
                                       Message(<<"Portal returned error status">>,
                                               response.status, response.body),
                                       rpc.req.id)]
          ELSE rpc' = [rpc EXCEPT !.pc = "done", !.posted = Append(@, body),
                          !.portal = response,
                          !.reply = [status |-> OK, body |-> ParseResponse(response.body)]]
    /\ UNCHANGED <<lifeVars, replVars, portalAux, check, metrics, libAux>>

(***************************************************************************)
(* Part III.  Name validation, one name at a time                          *)
(***************************************************************************)
\* no name was validated
NoCheck == [pc |-> "idle", kind |-> "sandbox", name |-> <<>>, result |-> "none"]

\* the name is given to validate_sandbox_name (kind "sandbox") or to
\* validate_namespace (kind "namespace")
ValidateName ==
    /\ check.pc = "idle"
    /\ check' = [check EXCEPT !.pc = "done",
                    !.result = IF check.kind = "sandbox"
                               THEN validate_sandbox_name(check.name)
                               ELSE validate_namespace(check.name)]
    /\ UNCHANGED <<lifeVars, replVars, portalAux, rpc, metrics, libAux>>

(***************************************************************************)
(* Part III.  sandbox.metrics.get                                          *)
(***************************************************************************)
\* the entries that the namespaces directory can have
MetricNamespaces == {"ns1", "ns2"}
\* an entry of the namespaces directory: kind "absent", "file" or "dir"; for a
\* directory, what each sandbox name is in it ("none": not there, "stopped",
\* "running") and whether orchestra::status fails for it
NoNamespace == [kind |-> "absent", sandboxes |-> [sb \in Sandboxes |-> "none"],
                fails |-> FALSE]
NamespaceStates ==
    {NoNamespace, [NoNamespace EXCEPT !.kind = "file"]}
       \cup [kind : {"dir"}, sandboxes : [Sandboxes -> {"none", "stopped", "running"}],
             fails : BOOLEAN]
\* params.sandbox: None
NoSandbox == "none"
MetricsParams == [namespace : MetricNamespaces \cup {WILDCARD},
                  sandbox : Sandboxes \cup {NoSandbox}]

\* no call: the namespaces directory does not exist
NoMetrics == [pc |-> "idle", root |-> FALSE, fs |-> [n \in MetricNamespaces |-> NoNamespace],
              params |-> [namespace |-> WILDCARD, sandbox |-> NoSandbox],
              result |-> [kind |-> "none", sandboxes |-> {}]]

\* orchestra::status(sandbox_names, Some(dir), None): the status of the named
\* sandboxes of the namespace, of all its sandboxes when no name is given; a
\* name that the namespace does not have yields no record
orchestra_status(names, dir) ==
    IF dir.fails THEN [ok |-> FALSE, statuses |-> {}]
    ELSE [ok |-> TRUE,
          statuses |-> {[name |-> sb, running |-> (dir.sandboxes[sb] = "running")] :
                           sb \in {x \in Sandboxes : /\ dir.sandboxes[x] # "none"
                                                      /\ (names = {} \/ x \in names)}}]

\* handler.rs 806-822, 866-876: the records of a namespace, tagged with it
Tagged(namespace, statuses) ==
    {[namespace |-> namespace, name |-> st.name, running |-> st.running] : st \in statuses}

\* sandbox_get_metrics_impl, handler.rs 767-890
sandbox_get_metrics_impl(root, fs, params) ==
    LET sandbox_names == IF params.sandbox = NoSandbox THEN {} ELSE {params.sandbox}
        dirs == {n \in MetricNamespaces : fs[n].kind = "dir"}
        status(n) == orchestra_status(sandbox_names, fs[n])
    IN IF params.namespace # WILDCARD /\ validate_namespace(Chars(params.namespace)) # "ok"
       THEN [kind |-> "validation", sandboxes |-> {}]
       ELSE IF params.sandbox # NoSandbox /\ validate_sandbox_name(Chars(params.sandbox)) # "ok"
       THEN [kind |-> "validation", sandboxes |-> {}]
       ELSE IF ~root
       THEN [kind |-> "internal", sandboxes |-> {}]
       ELSE IF params.namespace = WILDCARD
       THEN \* 793-829: the entries that are no directories and the
            \* namespaces whose status fails are skipped
            [kind |-> "ok",
             sandboxes |-> UNION {Tagged(n, status(n).statuses) :
                                     n \in {d \in dirs : status(d).ok}}]
       ELSE IF fs[params.namespace].kind # "dir"
       THEN \* 834-843 (a file of that name: orchestra::status fails)
            IF fs[params.namespace].kind = "absent"
            THEN [kind |-> "validation", sandboxes |-> {}]
            ELSE [kind |-> "internal", sandboxes |-> {}]
       ELSE IF ~status(params.namespace).ok
       THEN [kind |-> "internal", sandboxes |-> {}]
       ELSE [kind |-> "ok",
             sandboxes |-> Tagged(params.namespace, status(params.namespace).statuses)]

\* a sandbox.metrics.get call with the params params while the namespaces
\* directory is root, fs
MetricsStart(root, fs, params) ==
    metrics = [NoMetrics EXCEPT !.root = root, !.fs = fs, !.params = params]

MetricsGet ==
    /\ metrics.pc = "idle"
    /\ metrics' = [metrics EXCEPT !.pc = "done",
                      !.result = sandbox_get_metrics_impl(metrics.root, metrics.fs,
                                                          metrics.params)]
    /\ UNCHANGED <<lifeVars, replVars, portalAux, rpc, check, libAux>>

(***************************************************************************)
(* Part IV.  The portal's code module: EngineHandle, reactor, Node engine  *)
(***************************************************************************)
CodeEvals == 1..MaxEvals
Streams == {"stdout", "stderr"}

\* a line is the sequence of its characters
starts_with(line, prefix) ==
    Len(line) >= Len(prefix) /\ SubSeq(line, 1, Len(prefix)) = prefix
\* line.trim().is_empty()
trim_is_empty(line) == \A k \in 1..Len(line) : line[k] = " "

\* the programs, as what they print on stdout line by line: nothing; a plain
\* line; plain lines with lines between them that look like the prompts of
\* the REPL, an empty line and a line that begins with one dot
Programs ==
    { <<>>, << <<"x">> >>,
      << <<"x">>, <<">", " ", "x">>, <<".", ".", "x">>, <<>>, <<".", "x">>, <<"x">> >> }

\* a crossbeam channel: the messages in it and whether its receiver lives
Channel(rx) == [rx |-> rx, buf |-> <<>>]
\* Sender::send: the message is queued when the receiver lives and is
\* returned in an Err, which every caller here discards, when it is dropped
send(ch, m) == IF ch.rx = "dropped" THEN ch ELSE [ch EXCEPT !.buf = Append(@, m)]

\* node.rs 55-183, after initialize: the process runs, the pipes are empty,
\* nothing was sent on the channel of the active evaluation (its sender
\* _eval_tx is never used, line 94), both reader threads are spawned
NoNode == [alive |-> TRUE, stdin |-> <<>>, pipe |-> [s \in Streams |-> <<>>],
           eval_rx |-> <<>>, thread |-> [s \in Streams |-> "spawned"]]

\* engine.rs 193-261, after start_engines: no eval was called, the reactor
\* waits for a command.  Of eval i: prog, what its code prints; caller and
\* thread, where EngineHandle::eval and the thread it spawns are;
\* resp_receiver and line_receiver, the channels created at 113-114;
\* line_sender, whether the thread still holds it; sent, the messages that
\* the engine and the reactor handed to a sender for the eval; lines, what
\* the caller collected
NoHandle == [n |-> 0, cmd |-> <<>>, cur |-> 0, resp_sender |-> Channel("dropped"),
           prog |-> [i \in CodeEvals |-> <<>>],
           caller |-> [i \in CodeEvals |-> "none"],
           thread |-> [i \in CodeEvals |-> "none"],
           resp_receiver |-> [i \in CodeEvals |-> Channel("open")],
           line_receiver |-> [i \in CodeEvals |-> <<>>],
           line_sender |-> [i \in CodeEvals |-> "open"],
           sent |-> [i \in CodeEvals |-> <<>>],
           lines |-> [i \in CodeEvals |-> <<>>]]

CodeStart == node = NoNode /\ handle = NoHandle

\* SandboxBase::new, lib.rs 130-159: not started, and no request sent
NoSdk == [is_started |-> FALSE, calls |-> 0, sent |-> <<>>,
          last |-> [op |-> "none", response |-> "none", result |-> "none"]]

\* no function of the core library is called
NoCore == [pc |-> "idle", fn |-> "none", args |-> <<>>, result |-> "none"]

LibStart == CodeStart /\ sdk = NoSdk /\ core = NoCore

\* EngineHandle::eval, engine.rs 104-126: creates the two channels, sends
\* Cmd::Eval{id, code, language} (no sender goes with it) and spawns the
\* thread that processes the responses
CodeEval(prog) ==
    /\ handle.n < MaxEvals
    /\ LET i == handle.n + 1
       IN handle' = [handle EXCEPT !.n = i, !.cmd = Append(@, i), !.prog[i] = prog,
                               !.caller[i] = "collect", !.thread[i] = "spawned"]
    /\ UNCHANGED <<lifeVars, replVars, portalAux, serverAux, node, sdk, core>>

\* the failure of writeln!/flush, node.rs 193-200, as the reactor words it
NodeWriteError == <<"engine error", "Failed to send code to Node.js">>

\* the reactor, engine.rs 201-223, with NodeEngine::eval up to its sleep,
\* node.rs 185-203: the reactor creates a channel of its own and drops the
\* receiver at once (204); eval writes the code to the stdin of the
\* process; when the write fails the reactor sends Error on its channel
CodeReactorEval ==
    /\ handle.cur = 0 /\ handle.cmd # <<>>
    /\ LET i == Head(handle.cmd)
           ch == Channel("dropped")
       IN IF node.alive
          THEN /\ node' = [node EXCEPT !.stdin = Append(@, i)]
               /\ handle' = [handle EXCEPT !.cmd = Tail(@), !.cur = i, !.resp_sender = ch]
          ELSE /\ handle' = [handle EXCEPT !.cmd = Tail(@),
                              !.resp_sender = send(ch, EngineErrorMsg(i, NodeWriteError)),
                              !.sent[i] = Append(@, EngineErrorMsg(i, NodeWriteError))]
               /\ UNCHANGED node
    /\ UNCHANGED <<lifeVars, replVars, portalAux, serverAux, sdk, core>>

\* NodeEngine::eval, node.rs 202-208: after the sleep of 100 ms it sends
\* Done on the sender it was given and returns to the reactor
NodeEvalDone ==
    /\ handle.cur # 0
    /\ handle' = [handle EXCEPT !.cur = 0,
                   !.resp_sender = send(@, DoneMsg(handle.cur)),
                   !.sent[handle.cur] = Append(@, DoneMsg(handle.cur))]
    /\ UNCHANGED <<lifeVars, replVars, portalAux, serverAux, node, sdk, core>>

\* the node process takes the next code from its stdin, runs it and prints
\* its lines
NodeRunCode ==
    /\ node.alive /\ node.stdin # <<>>
    /\ node' = [node EXCEPT !.stdin = Tail(@),
                   !.pipe["stdout"] = @ \o handle.prog[Head(node.stdin)]]
    /\ UNCHANGED <<lifeVars, replVars, portalAux, serverAux, handle, sdk, core>>

\* the node process exits
NodeExit ==
    /\ node.alive
    /\ node' = [node EXCEPT !.alive = FALSE, !.stdin = <<>>]
    /\ UNCHANGED <<lifeVars, replVars, portalAux, serverAux, handle, sdk, core>>

\* what the stdout thread forwards, node.rs 120-123
Forwards(s, line) ==
    \/ s = "stderr"
    \/ ~trim_is_empty(line) /\ ~starts_with(line, <<">">>) /\ ~starts_with(line, <<".", ".">>)

\* one turn of the loop of a reader thread, node.rs 104-139 and 150-179: it
\* takes (id, sender) from the channel of the active evaluation; with one,
\* it reads the next line of its pipe and sends it unless it is skipped,
\* and ends at EOF; without one it sleeps for 10 ms
NodeReader(s) ==
    /\ node.thread[s] \in {"spawned", "loop"}
    /\ IF node.eval_rx # <<>>
       THEN LET i == Head(node.eval_rx)
            IN IF node.pipe[s] # <<>>
               THEN LET line == Head(node.pipe[s])
                        m == LineMsg(i, s, line)
                    IN /\ node' = [node EXCEPT !.eval_rx = Tail(@), !.pipe[s] = Tail(@),
                                               !.thread[s] = "loop"]
                       /\ handle' = IF Forwards(s, line)
                                  THEN [handle EXCEPT !.resp_sender = send(@, m),
                                                    !.sent[i] = Append(@, m)]
                                  ELSE handle
               ELSE /\ ~node.alive
                    /\ node' = [node EXCEPT !.eval_rx = Tail(@), !.thread[s] = "ended"]
                    /\ UNCHANGED handle
       ELSE /\ node' = [node EXCEPT !.thread[s] = "sleep"]
            /\ UNCHANGED handle
    /\ UNCHANGED <<lifeVars, replVars, portalAux, serverAux, sdk, core>>

\* the end of the sleep of a reader thread, node.rs 137, 177
NodeWake(s) ==
    /\ node.thread[s] = "sleep"
    /\ node' = [node EXCEPT !.thread[s] = "loop"]
    /\ UNCHANGED <<lifeVars, replVars, portalAux, serverAux, handle, sdk, core>>

\* the thread of EngineHandle::eval, engine.rs 126-149: it receives from
\* resp_receiver, whose sender _resp_sender stays in the frame of eval
\* (113), so that recv never reports a disconnection: with no message the
\* thread is parked in recv.  A Line becomes a line of the caller; Done and
\* Error end the thread, which drops line_sender
CodeProcess(i) ==
    /\ handle.thread[i] \in {"spawned", "blocked"}
    /\ IF handle.resp_receiver[i].buf # <<>>
       THEN LET m == Head(handle.resp_receiver[i].buf)
                got == [handle EXCEPT !.resp_receiver[i].buf = Tail(@), !.thread[i] = "spawned"]
            IN handle' =
                 CASE m.t = "Line" ->
                        [got EXCEPT !.line_receiver[i] =
                                       Append(@, [stream |-> m.stream, text |-> m.text])]
                   [] m.t = "Done" ->
                        [got EXCEPT !.thread[i] = "ended", !.line_sender[i] = "dropped"]
                   [] OTHER ->
                        [got EXCEPT !.thread[i] = "ended", !.line_sender[i] = "dropped",
                                    !.line_receiver[i] =
                                       Append(@, [stream |-> "stderr",
                                                  text |-> <<"Error:">> \o m.text])]
       ELSE /\ handle.thread[i] = "spawned"
            /\ handle' = [handle EXCEPT !.thread[i] = "blocked"]
    /\ UNCHANGED <<lifeVars, replVars, portalAux, serverAux, node, sdk, core>>

\* the caller of EngineHandle::eval, engine.rs 151-157: it receives from
\* line_receiver until line_sender is dropped, and returns the lines
CodeCollect(i) ==
    /\ handle.caller[i] \in {"collect", "blocked"}
    /\ IF handle.line_receiver[i] # <<>>
       THEN handle' = [handle EXCEPT !.line_receiver[i] = Tail(@), !.caller[i] = "collect",
                                 !.lines[i] = Append(@, Head(handle.line_receiver[i]))]
       ELSE IF handle.line_sender[i] = "dropped"
       THEN handle' = [handle EXCEPT !.caller[i] = "returned"]
       ELSE /\ handle.caller[i] = "collect"
            /\ handle' = [handle EXCEPT !.caller[i] = "blocked"]
    /\ UNCHANGED <<lifeVars, replVars, portalAux, serverAux, node, sdk, core>>


(***************************************************************************)
(* Part V.  The core library: config validation                            *)
(***************************************************************************)
\* config.rs 29
START_SCRIPT_NAME == "start"
\* the names of the scripts of a sandbox
ScriptNames == {START_SCRIPT_NAME, "build"}
\* Sandbox.shell: None
NoShell == "none"
\* the fields of a Sandbox that validate reads, config.rs 309-319: the names
\* of its scripts, its command (the exec of the spec) and its shell
SandboxConfigs ==
    [scripts : SUBSET ScriptNames, command : {<<>>, <<"sh">>, <<"sh", "-c">>},
     shell : {NoShell, "", "/bin/sh"}]
\* Microsandbox.sandboxes: a map from names to sandboxes
MicrosandboxConfigs ==
    UNION {[names -> SandboxConfigs] : names \in SUBSET Sandboxes}

MissingStartOrExecOrShell == "MissingStartOrExecOrShell"

\* (mutant: a sandbox with a shell alone is refused)
Sandbox_validate_without_shell(sandbox) ==
    IF START_SCRIPT_NAME \notin sandbox.scripts /\ sandbox.command = <<>>
    THEN MissingStartOrExecOrShell
    ELSE "ok"

\* Sandbox::validate, config.rs 439-449
Sandbox_validate(sandbox) ==
    IF /\ START_SCRIPT_NAME \notin sandbox.scripts
       /\ sandbox.command = <<>>
       /\ sandbox.shell = NoShell
    THEN MissingStartOrExecOrShell
    ELSE "ok"

\* Microsandbox::validate, config.rs 413-420: the error of the first sandbox
\* that fails, in whatever order the map yields them
Microsandbox_validate(config) ==
    IF \E name \in DOMAIN config : Sandbox_validate(config[name]) # "ok"
    THEN MissingStartOrExecOrShell
    ELSE "ok"

\* a call of Microsandbox::validate, and of Sandbox::validate for each of
\* the sandboxes, on the config config
ValidateStart(config) ==
    core = [NoCore EXCEPT !.fn = "validate", !.args = config]

ConfigValidate ==
    /\ core.pc = "idle" /\ core.fn = "validate"
    /\ core' = [core EXCEPT !.pc = "done",
                   !.result = [sandbox |-> [name \in DOMAIN core.args |->
                                               Sandbox_validate(core.args[name])],
                               config |-> Microsandbox_validate(core.args)]]
    /\ UNCHANGED <<lifeVars, replVars, portalAux, serverAux, codeAux, sdk>>

(***************************************************************************)
(* Part V.  The Rust SDK: SandboxBase                                      *)
(***************************************************************************)
\* what becomes of a request: it is answered with a result ("ok"; "warning":
\* a result that says that the poll timed out), with a JSON-RPC error
\* ("error") or with a status that is no success ("status"), or the client
\* gives up ("timeout") or cannot connect ("unreachable")
Responses == {"ok", "warning", "error", "status", "timeout", "unreachable"}

\* make_request, lib.rs 162-214: what it returns for the response
make_request(response) ==
    CASE response \in {"timeout", "unreachable"} -> "HttpError"
      [] response = "status" -> "RequestFailed"
      [] response = "error" -> "ServerError"
      [] OTHER -> "ok"

\* a call op of the SDK that sent the request of method method, or none
\* (method = ""), got response and returned result
SdkCall(op, method, response, result, started) ==
    sdk' = [is_started |-> started, calls |-> sdk.calls + 1,
            sent |-> IF method = "" THEN sdk.sent ELSE Append(sdk.sent, method),
            last |-> [op |-> op, response |-> IF method = "" THEN "none" ELSE response,
                      result |-> result]]

\* (mutant: is_started is set when the request is sent)
start_sandbox_optimistic(response) ==
    /\ sdk.calls < MaxSdkCalls
    /\ IF sdk.is_started
       THEN SdkCall("start_sandbox", "", response, "ok", TRUE)
       ELSE SdkCall("start_sandbox", "sandbox.start", response,
                    CASE response = "timeout" -> "Timeout"
                      [] response = "unreachable" -> "HttpError"
                      [] OTHER -> make_request(response),
                    TRUE)
    /\ UNCHANGED <<lifeVars, replVars, portalAux, serverAux, codeAux, core>>

\* SandboxBase::start_sandbox, lib.rs 217-312
start_sandbox(response) ==
    /\ sdk.calls < MaxSdkCalls
    /\ IF sdk.is_started
       THEN \* 224-226
            SdkCall("start_sandbox", "", response, "ok", TRUE)
       ELSE LET result == CASE response = "timeout" -> "Timeout"       \* 270-275
                            [] response = "unreachable" -> "HttpError" \* 276
                            [] response = "status" -> "RequestFailed"  \* 280-283
                            [] response = "error" -> "ServerError"     \* 288-295
                            [] OTHER -> "ok"                           \* 297-311
            IN SdkCall("start_sandbox", "sandbox.start", response, result, result = "ok")
    /\ UNCHANGED <<lifeVars, replVars, portalAux, serverAux, codeAux, core>>

\* SandboxBase::stop_sandbox, lib.rs 315-329
stop_sandbox(response) ==
    /\ sdk.calls < MaxSdkCalls
    /\ IF ~sdk.is_started
       THEN SdkCall("stop_sandbox", "", response, "ok", FALSE)
       ELSE SdkCall("stop_sandbox", "sandbox.stop", response, make_request(response),
                    make_request(response) # "ok")
    /\ UNCHANGED <<lifeVars, replVars, portalAux, serverAux, codeAux, core>>

\* a call that needs a started sandbox and leaves is_started alone
SdkRequest(op, method, response) ==
    /\ IF ~sdk.is_started
       THEN SdkCall(op, "", response, "NotStarted", sdk.is_started)
       ELSE SdkCall(op, method, response, make_request(response), sdk.is_started)
    /\ UNCHANGED <<lifeVars, replVars, portalAux, serverAux, codeAux, core>>

\* SandboxBase::run_code, lib.rs 332-349
run_code(response) ==
    /\ sdk.calls < MaxSdkCalls
    /\ SdkRequest("run_code", "sandbox.repl.run", response)

\* Command::run, command.rs 116-153
Command_run(response) ==
    /\ sdk.calls < MaxSdkCalls
    /\ SdkRequest("Command::run", "sandbox.command.execute", response)

\* Metrics::get, metrics.rs 87-103
Metrics_get(response) ==
    /\ sdk.calls < MaxSdkCalls
    /\ SdkRequest("Metrics::get", "sandbox.metrics.get", response)

(***************************************************************************)
(* Part V.  The core library: paths                                        *)
(***************************************************************************)
\* a path is the sequence of its characters
PathChars == {"/", "a", "b"}
PathsUpTo(n) == UNION {[1..k -> PathChars] : k \in 0..n}

\* str::ends_with for one character
ends_with(s, c) == s # <<>> /\ s[Len(s)] = c

\* (mutant: the paths are compared as they are given)
paths_overlap_by_prefix(path1, path2) ==
    starts_with(path1, path2) \/ starts_with(path2, path1)

\* paths_overlap, path.rs 112-127
paths_overlap(path1, path2) ==
    LET p1 == IF ends_with(path1, "/") THEN path1 ELSE path1 \o <<"/">>
        p2 == IF ends_with(path2, "/") THEN path2 ELSE path2 \o <<"/">>
    IN starts_with(p1, p2) \/ starts_with(p2, p1)

\* a call of paths_overlap on the two paths, in both orders
OverlapStart(path1, path2) ==
    core = [NoCore EXCEPT !.fn = "paths_overlap", !.args = <<path1, path2>>]

PathsOverlap ==
    /\ core.pc = "idle" /\ core.fn = "paths_overlap"
    /\ core' = [core EXCEPT !.pc = "done",
                   !.result = [given |-> paths_overlap(core.args[1], core.args[2]),
                               swapped |-> paths_overlap(core.args[2], core.args[1])]]
    /\ UNCHANGED <<lifeVars, replVars, portalAux, serverAux, codeAux, sdk>>

\* the components of a path: what stands between its slashes
RECURSIVE Components(_)
Components(path) ==
    IF path = <<>> THEN << <<>> >>
    ELSE LET rest == Components(Tail(path))
         IN IF Head(path) = "/" THEN << <<>> >> \o rest
            ELSE << <<Head(path)>> \o Head(rest) >> \o Tail(rest)

\* the components of a path that are not empty
NonEmpty(comps) == SelectSeq(comps, LAMBDA c : c # <<>>)

\* the components joined by single slashes
RECURSIVE JoinPath(_)
JoinPath(comps) ==
    IF comps = <<>> THEN <<>>
    ELSE IF Len(comps) = 1 THEN Head(comps)
    ELSE Head(comps) \o <<"/">> \o JoinPath(Tail(comps))

\* the path types are "Absolute" and "Relative"; a result is Ok or Err
OkPath(path) == [kind |-> "ok", path |-> path]
ErrPath(error) == [kind |-> "err", error |-> error]

\* microsandbox_utils::normalize_path, as path.rs 129-157 uses it: the path
\* must be of the given type (Absolute: it starts with a slash; Relative: it
\* does not) and not empty; repeated and trailing slashes are dropped. The
\* paths of the model have no . and .. components.
normalize_path(path, type) ==
    IF path = <<>> THEN ErrPath("PathValidation")
    ELSE IF type = "Absolute" /\ Head(path) # "/" THEN ErrPath("PathValidation")
    ELSE IF type = "Relative" /\ Head(path) = "/" THEN ErrPath("PathValidation")
    ELSE LET joined == JoinPath(NonEmpty(Components(path)))
         IN OkPath(IF type = "Absolute" THEN <<"/">> \o joined ELSE joined)

\* normalize_volume_path, path.rs 129-157
normalize_volume_path(base_path, requested_path) ==
    LET normalized_base == normalize_path(base_path, "Absolute")
    IN IF normalized_base.kind = "err" THEN normalized_base
       ELSE IF starts_with(requested_path, <<"/">>)
       THEN LET normalized_requested == normalize_path(requested_path, "Absolute")
            IN IF normalized_requested.kind = "err" THEN normalized_requested
               ELSE IF ~starts_with(normalized_requested.path, normalized_base.path)
               THEN ErrPath("PathValidation")
               ELSE normalized_requested
       ELSE LET normalized_requested == normalize_path(requested_path, "Relative")
            IN IF normalized_requested.kind = "err" THEN normalized_requested
               ELSE normalize_path(normalized_base.path \o <<"/">>
                                      \o normalized_requested.path, "Absolute")

\* a call of normalize_volume_path
VolumeStart(base_path, requested_path) ==
    core = [NoCore EXCEPT !.fn = "normalize_volume_path",
                          !.args = <<base_path, requested_path>>]
NormalizeVolumePath ==
    /\ core.pc = "idle" /\ core.fn = "normalize_volume_path"
    /\ core' = [core EXCEPT !.pc = "done",
                   !.result = normalize_volume_path(core.args[1], core.args[2])]
    /\ UNCHANGED <<lifeVars, replVars, portalAux, serverAux, codeAux, sdk>>

(***************************************************************************)
(* Specifications                                                          *)
(***************************************************************************)
\* the portal after start_engines: no eval submitted, both sub-engines
\* initialized and idle
ReplStart ==
    /\ nSub = 0
    /\ ev = [i \in Evals |-> NoEval]
    /\ cmdQ = <<>>
    /\ rCur = 0
    /\ returned = {}
    /\ resp = [i \in Evals |-> <<>>]
    /\ timedOut = [i \in Evals |-> "no"]
    /\ py = [req |-> 0, pc |-> "idle", slot |-> NoSlot, done |-> "none"]
    /\ pyProc = [stdin |-> <<>>, run |-> 0, env |-> <<>>]
    /\ pyStdout = <<>>
    /\ pyStderr = <<>>
    /\ rs = [req |-> 0, cur |-> 0, pc |-> "idle", evalOk |-> TRUE, slot |-> NoSlot,
             done |-> "none", ctx |-> <<>>]
    /\ rsStdoutEv = <<>>
    /\ rsStderrEv = <<>>
    /\ rsOut = <<>>

\* the server with a pool of pool ports, no port assigned and no call issued
LifeStart(pool, dirs, calls) ==
    /\ poolSize = pool
    /\ free = PORT_MIN..(PORT_MIN + pool - 1)
    /\ assigned = [k \in Keys |-> NoPort]
    /\ nsDir = dirs
    /\ cfgExists = {}
    /\ cfgFile = [n \in Namespaces |-> DEFAULT_CONFIG]
    /\ vmUp = {}
    /\ call = [c \in calls |-> IdleCall]

\* no call is looked at closely
NoPoll == [pc |-> "idle", image |-> FALSE, attempt |-> 0, elapsed |-> 0, outcome |-> "none"]
\* the engines are initialized, the reactor consumes commands and shutdown
\* was not called
NoShutdown == [reactor |-> "running", calls |-> 0, refused |-> 0,
               discarded |-> {}, unavailable |-> {}]
PortalStart == poll = NoPoll /\ shut = NoShutdown /\ session = Languages
AuxStart ==
    PortalStart /\ rpc = NoRpc /\ check = NoCheck /\ metrics = NoMetrics /\ LibStart

InitLifecycle ==
    /\ \E pool \in 1..MaxPool, dirs \in SUBSET Namespaces : LifeStart(pool, dirs, Calls)
    /\ ReplStart
    /\ AuxStart

NextLifecycle ==
    \/ \E c \in Calls, ns \in Namespaces, sb \in Sandboxes, req \in Requests :
          StartBegin(c, ns, sb, req)
    \/ \E c \in Calls : StartAssign(c)
    \/ \E c \in Calls : StartWrite(c)
    \/ \E c \in Calls : StartUp(c)
    \/ \E c \in Calls : StartPoll(c)
    \/ \E c \in Calls, ns \in Namespaces, sb \in Sandboxes : StopBegin(c, ns, sb)
    \/ \E c \in Calls : StopDown(c)
    \/ \E c \in Calls : StopRelease(c)

SpecLifecycle == InitLifecycle /\ [][NextLifecycle]_vars

\* the calls run one after the other: a call is issued when no call is in
\* progress
NoCallInProgress == \A d \in DOMAIN call : call[d].pc \in {"idle", "done"}

SeqStartBegin(c, ns, sb, req) == NoCallInProgress /\ StartBegin(c, ns, sb, req)

SeqStopBegin(c, ns, sb) == NoCallInProgress /\ StopBegin(c, ns, sb)

InitSequence ==
    /\ LifeStart(MaxPool, {}, SeqCalls)
    /\ ReplStart
    /\ AuxStart

NextSequence ==
    \/ \E c \in SeqCalls, ns \in Namespaces, sb \in Sandboxes, req \in SeqRequests :
          SeqStartBegin(c, ns, sb, req)
    \/ \E c \in SeqCalls : StartAssign(c)
    \/ \E c \in SeqCalls : StartWrite(c)
    \/ \E c \in SeqCalls : StartUp(c)
    \/ \E c \in SeqCalls : StartPoll(c)
    \/ \E c \in SeqCalls, ns \in Namespaces, sb \in Sandboxes : SeqStopBegin(c, ns, sb)
    \/ \E c \in SeqCalls : StopDown(c)
    \/ \E c \in SeqCalls : StopRelease(c)

SpecSequence == InitSequence /\ [][NextSequence]_vars

\* sandbox.start calls run one after the other, with the readiness poll taken
\* attempt by attempt
InitPoll ==
    /\ LifeStart(1, {}, Calls)
    /\ ReplStart
    /\ AuxStart

NextPoll ==
    \/ \E c \in Calls, ns \in Namespaces, sb \in Sandboxes, req \in Requests :
          SeqStartBegin(c, ns, sb, req)
    \/ \E c \in Calls : StartAssign(c)
    \/ \E c \in Calls : StartWrite(c)
    \/ \E c \in Calls : StartUp(c)
    \/ \E c \in Calls : PollBegin(c)
    \/ \E c \in Calls, lat \in StatusLatencies, status \in StatusResults :
          PollAttempts(c, lat, status)
    \/ \E c \in Calls : PollReturn(c)

SpecPoll == InitPoll /\ [][NextPoll]_vars

InitRepl ==
    /\ LifeStart(1, {}, Calls)
    /\ ReplStart
    /\ AuxStart

NextRepl ==
    \/ \E code \in PythonCodes, tmo \in Timeouts : Submit("python", code, tmo)
    \/ \E code \in RustCodes, tmo \in Timeouts : Submit("rust", code, tmo)
    \/ ReactorDispatch
    \/ ReactorResume
    \/ PyEvalBegin
    \/ PyEvalCompleted
    \/ PyEvalTimeout
    \/ PyEvalClear
    \/ PyRunCode
    \/ PyRunMarker
    \/ PyStdoutReader
    \/ PyStderrReader
    \/ RsEvalBegin
    \/ RsStdoutHelper
    \/ RsStderrHelper
    \/ RsDrain
    \/ RsWaitEnd

SpecRepl == InitRepl /\ [][NextRepl]_vars

\* the portal with clients that go away while their eval is in flight
InitDisconnect == InitRepl

\* the evals that are submitted there: [lang, code, timeout]
DisconnectEvals ==
    { <<"python", "print", 2>>, <<"python", "warn", NoTimeout>>,
      <<"rust", "warn", 2>>, <<"rust", "bad", NoTimeout>> }

NextDisconnect ==
    \/ \E e \in DisconnectEvals : Submit(e[1], e[2], e[3])
    \/ \E i \in Evals : ClientDrop(i)
    \/ ReactorDispatch
    \/ ReactorResume
    \/ PyEvalBegin
    \/ PyEvalCompleted
    \/ PyEvalTimeout
    \/ PyEvalClear
    \/ PyRunCode
    \/ PyRunMarker
    \/ PyStdoutReader
    \/ PyStderrReader
    \/ RsEvalBegin
    \/ RsStdoutHelper
    \/ RsStderrHelper
    \/ RsDrain
    \/ RsWaitEnd

SpecDisconnect == InitDisconnect /\ [][NextDisconnect]_vars

\* the portal whose python3 process is ended by the code of an eval
InitExit == InitRepl

\* the evals that are submitted there: [lang, code, timeout]
ExitEvals ==
    { <<"python", "exit", NoTimeout>>, <<"python", "exit", 2>>,
      <<"python", "print", NoTimeout>>, <<"python", "warn", 2>> }

NextExit ==
    \/ \E e \in ExitEvals : Submit(e[1], e[2], e[3])
    \/ ReactorDispatch
    \/ ReactorResume
    \/ PyEvalBegin
    \/ PyEvalCompleted
    \/ PyEvalTimeout
    \/ PyEvalClear
    \/ PyRunCode
    \/ PyRunMarker
    \/ PyStdoutReader
    \/ PyStderrReader
    \/ PyProcessExit
    \/ PyEvalWriteFails
    \/ PyReaderDone
    \/ PyEvalChannelClosed

SpecExit == InitExit /\ [][NextExit]_vars

\* every step that can be taken is taken in the end: the tasks of the
\* runtime and the python3 process all run
SpecExitFair == SpecExit /\ WF_vars(NextExit)

\* the portal whose engine handle is shut down while evals are submitted
InitShutdown == InitRepl

\* the evals that are submitted there: [lang, code, timeout]
ShutdownEvals ==
    { <<"python", "print", NoTimeout>>, <<"python", "warn", 2>>, <<"rust", "warn", 2>> }

NextShutdown ==
    \/ \E e \in ShutdownEvals : Submit(e[1], e[2], e[3])
    \/ \E e \in ShutdownEvals : SubmitUnavailable(e[1], e[2], e[3])
    \/ HandleShutdown
    \/ ReactorShutdown
    \/ ReactorDispatch
    \/ ReactorResume
    \/ PyEvalBegin
    \/ PyEvalCompleted
    \/ PyEvalTimeout
    \/ PyEvalClear
    \/ PyRunCode
    \/ PyRunMarker
    \/ PyStdoutReader
    \/ PyStderrReader
    \/ RsEvalBegin
    \/ RsStdoutHelper
    \/ RsStderrHelper
    \/ RsDrain
    \/ RsWaitEnd

SpecShutdown == InitShutdown /\ [][NextShutdown]_vars

\* the portal from the return of start_engines: the reactor task is spawned
\* and has not initialized the engines yet
InitSessions ==
    /\ LifeStart(1, {}, Calls)
    /\ ReplStart
    /\ poll = NoPoll
    /\ shut = [NoShutdown EXCEPT !.reactor = "init"]
    /\ session = {}
    /\ LibStart
    /\ rpc = NoRpc
    /\ check = NoCheck
    /\ metrics = NoMetrics

NextSessions ==
    \/ InitializeEngines
    \/ NextShutdown

SpecSessions == InitSessions /\ [][NextSessions]_vars

\* the server's endpoint, one request after the other
InitRpc ==
    /\ LifeStart(1, {}, Calls)
    /\ ReplStart
    /\ AuxStart

NextRpc ==
    \/ \E request \in JsonRpcRequests, hasPortal \in BOOLEAN : RpcHandle(request, hasPortal)
    \/ \E answered \in BOOLEAN, status \in HttpStatuses, run \in FailRuns :
          ForwardProbes(answered, status, run)
    \/ \E sent \in BOOLEAN : ForwardPost(sent)

SpecRpc == InitRpc /\ [][NextRpc]_vars

\* the two validation functions, applied to a name
InitNames ==
    /\ LifeStart(1, {}, Calls)
    /\ ReplStart
    /\ PortalStart
    /\ LibStart
    /\ rpc = NoRpc
    /\ \E kind \in {"sandbox", "namespace"}, name \in Names :
          check = [NoCheck EXCEPT !.kind = kind, !.name = name]
    /\ metrics = NoMetrics

NextNames == ValidateName

SpecNames == InitNames /\ [][NextNames]_vars

\* sandbox.metrics.get, applied to a namespaces directory
InitMetrics ==
    /\ LifeStart(1, {}, Calls)
    /\ ReplStart
    /\ PortalStart
    /\ LibStart
    /\ rpc = NoRpc
    /\ check = NoCheck
    /\ \/ \E params \in MetricsParams : MetricsStart(FALSE, NoMetrics.fs, params)
       \/ \E fs \in [MetricNamespaces -> NamespaceStates], params \in MetricsParams :
             MetricsStart(TRUE, fs, params)

NextMetrics == MetricsGet

SpecMetrics == InitMetrics /\ [][NextMetrics]_vars

\* the three lifecycle methods with the namespace *: sandbox.start and
\* sandbox.stop calls, one after the other, with and without it, and a
\* sandbox.metrics.get over two namespaces that have a running sandbox each
AllNamespaces == Namespaces \cup {WILDCARD}
TwoRunning ==
    [n \in MetricNamespaces |->
        [kind |-> "dir", sandboxes |-> [sb \in Sandboxes |-> IF sb = "a" THEN "running"
                                                               ELSE "none"],
         fails |-> FALSE]]

SeqStartInvalid(c, ns, sb, req) == NoCallInProgress /\ StartInvalid(c, ns, sb, req)

SeqStopInvalid(c, ns, sb) == NoCallInProgress /\ StopInvalid(c, ns, sb)

InitWildcard ==
    /\ LifeStart(1, {}, Calls)
    /\ ReplStart
    /\ PortalStart
    /\ LibStart
    /\ rpc = NoRpc
    /\ check = NoCheck
    /\ \E namespace \in {WILDCARD, "ns1"} :
          MetricsStart(TRUE, TwoRunning, [namespace |-> namespace, sandbox |-> NoSandbox])

NextWildcard ==
    \/ \E c \in Calls, ns \in AllNamespaces, sb \in Sandboxes, req \in Requests :
          \/ SeqStartBegin(c, ns, sb, req)
          \/ SeqStartInvalid(c, ns, sb, req)
    \/ \E c \in Calls, ns \in AllNamespaces, sb \in Sandboxes :
          \/ SeqStopBegin(c, ns, sb)
          \/ SeqStopInvalid(c, ns, sb)
    \/ \E c \in Calls : StartAssign(c)
    \/ \E c \in Calls : StartWrite(c)
    \/ \E c \in Calls : StartUp(c)
    \/ \E c \in Calls : StartPoll(c)
    \/ \E c \in Calls : StopDown(c)
    \/ \E c \in Calls : StopRelease(c)
    \/ MetricsGet

SpecWildcard == InitWildcard /\ [][NextWildcard]_vars

\* the code module: evals of Node code through EngineHandle::eval
InitCode ==
    /\ LifeStart(1, {}, Calls)
    /\ ReplStart
    /\ AuxStart

NextCode ==
    \/ \E prog \in Programs : CodeEval(prog)
    \/ CodeReactorEval
    \/ NodeEvalDone
    \/ NodeRunCode
    \/ NodeExit
    \/ \E s \in Streams : NodeReader(s)
    \/ \E s \in Streams : NodeWake(s)
    \/ \E i \in CodeEvals : CodeProcess(i)
    \/ \E i \in CodeEvals : CodeCollect(i)

SpecCode == InitCode /\ [][NextCode]_vars

\* the same, where every thread that can take a step takes one
SpecCodeFair == SpecCode /\ WF_vars(NextCode)

\* Microsandbox::validate, applied to a config
InitValidate ==
    /\ LifeStart(1, {}, Calls)
    /\ ReplStart
    /\ PortalStart /\ rpc = NoRpc /\ check = NoCheck /\ metrics = NoMetrics
    /\ CodeStart /\ sdk = NoSdk
    /\ \E config \in MicrosandboxConfigs : ValidateStart(config)

NextValidate == ConfigValidate

SpecValidate == InitValidate /\ [][NextValidate]_vars

\* calls on one SandboxBase, one after the other (start_sandbox and
\* stop_sandbox take &mut self)
InitSdk ==
    /\ LifeStart(1, {}, Calls)
    /\ ReplStart
    /\ AuxStart

NextSdk ==
    \E response \in Responses :
       \/ start_sandbox(response)
       \/ stop_sandbox(response)
       \/ run_code(response)
       \/ Command_run(response)
       \/ Metrics_get(response)

SpecSdk == InitSdk /\ [][NextSdk]_vars

\* paths_overlap, applied to two paths
InitOverlap ==
    /\ LifeStart(1, {}, Calls)
    /\ ReplStart
    /\ PortalStart /\ rpc = NoRpc /\ check = NoCheck /\ metrics = NoMetrics
    /\ CodeStart /\ sdk = NoSdk
    /\ \E path1, path2 \in PathsUpTo(MaxPathLen) : OverlapStart(path1, path2)

NextOverlap == PathsOverlap

SpecOverlap == InitOverlap /\ [][NextOverlap]_vars

\* calls of normalize_volume_path on a base path and a requested path
InitVolume ==
    /\ LifeStart(1, {}, Calls)
    /\ ReplStart
    /\ PortalStart /\ rpc = NoRpc /\ check = NoCheck /\ metrics = NoMetrics
    /\ CodeStart /\ sdk = NoSdk
    /\ \E base_path, requested_path \in PathsUpTo(MaxPathLen) :
          VolumeStart(base_path, requested_path)

NextVolume == NormalizeVolumePath

SpecVolume == InitVolume /\ [][NextVolume]_vars





(***************************************************************************)
(* Part I.  Properties                                                     *)
(***************************************************************************)
AssignedKeys == {k \in Keys : assigned[k] # NoPort}

\* call c, a sandbox.stop that passed the name, namespace and config-file
\* checks, returns in this step
StopReturns(c) ==
    /\ call[c].kind = "stop"
    /\ call[c].pc \in {"down", "release"}
    /\ call'[c].pc = "done"

\* call c, a sandbox.start that was assigned a port, returns an error in this
\* step
StartFailsAfterAssign(c) ==
    /\ call[c].kind = "start"
    /\ call[c].pc \in {"write", "up", "poll"}
    /\ call'[c].pc = "done"
    /\ call'[c].result # "ok"

\* C1: when a sandbox.stop that passed the checks returns, also with an error
\* of the supervisor's stop step, its key has no port and the port the key had
\* is in the free set.
C1_StopAlwaysReleases ==
    [][\A c \in Calls : StopReturns(c) =>
          /\ assigned'[KeyOf(c)] = NoPort
          /\ assigned[KeyOf(c)] # NoPort => assigned[KeyOf(c)] \in free']_vars

\* C2: when a sandbox.start returns an error after its port was assigned, the
\* key has no port any more and the port of the call is in the free set.
C2_FailedStartReleases ==
    [][\A c \in Calls : StartFailsAfterAssign(c) =>
          /\ assigned'[KeyOf(c)] = NoPort
          /\ call[c].port \in free']_vars

\* C3: the free set and the set of the assigned ports are disjoint and their
\* union is the configured range [PORT_MIN, PORT_MAX].
C3_PortPartition ==
    /\ free \cap AssignedPorts = {}
    /\ free \cup AssignedPorts = PortRange

\* C3 witness: a start was assigned a port and a stop of the same key has
\* released it
C3_Witness ==
    \E c, d \in Calls :
        /\ call[c].kind = "start" /\ call[c].port # NoPort
        /\ call[d].kind = "stop" /\ call[d].result = "ok" /\ KeyOf(d) = KeyOf(c)
        /\ assigned[KeyOf(c)] = NoPort
        /\ call[c].port \in free

\* C10: with a pool of one port, at most one key holds the port; a start fails
\* at the assignment (resource exhausted) exactly when the port is held by
\* another key; and when a stop of the key that holds the port returns, the
\* port is free again (so that the next start is assigned it).
C10_PoolOfOne ==
    [][poolSize = 1 =>
         /\ Cardinality({k \in Keys : assigned'[k] # NoPort}) <= 1
         /\ \A c \in Calls :
               (call[c].kind = "start" /\ call[c].pc = "assign" /\ call'[c].pc # "assign")
               => /\ call'[c].result = "resource_exhausted"
                       <=> (AssignedKeys # {} /\ KeyOf(c) \notin AssignedKeys)
                  /\ call'[c].result # "resource_exhausted"
                       => (assigned'[KeyOf(c)] = PORT_MIN /\ call'[c].port = PORT_MIN)
         /\ \A c \in Calls :
               (StopReturns(c) /\ KeyOf(c) \in AssignedKeys) => free' = {PORT_MIN}]_vars

\* C10 restricted to the stops that return Ok: it holds, hence the code breaks
\* C10 only where a stop returns an error
C10_WithSuccessfulStop ==
    [][poolSize = 1 =>
         /\ Cardinality({k \in Keys : assigned'[k] # NoPort}) <= 1
         /\ \A c \in Calls :
               (call[c].kind = "start" /\ call[c].pc = "assign" /\ call'[c].pc # "assign")
               => /\ call'[c].result = "resource_exhausted"
                       <=> (AssignedKeys # {} /\ KeyOf(c) \notin AssignedKeys)
                  /\ call'[c].result # "resource_exhausted"
                       => (assigned'[KeyOf(c)] = PORT_MIN /\ call'[c].port = PORT_MIN)
         /\ \A c \in Calls :
               (StopReturns(c) /\ KeyOf(c) \in AssignedKeys /\ call'[c].result = "ok")
               => free' = {PORT_MIN}]_vars

\* call c, a sandbox.start, passes the assignment of its port in this step
StartAssigns(c) ==
    /\ call[c].kind = "start"
    /\ call[c].pc = "assign"
    /\ call'[c].pc # "assign"

\* C11: assign(key) returns the port that key already has and then leaves the
\* free set and the map as they are; it fails exactly when key has no port and
\* the free set is empty; otherwise it takes a port from the free set; and
\* under every interleaving of starts and stops no port is assigned to two
\* keys (a key has one port at most: the map is a function).
C11_AssignSemantics ==
    [][ /\ \A c \in Calls : StartAssigns(c) =>
              LET key == KeyOf(c)
              IN /\ assigned[key] # NoPort =>
                       /\ call'[c].pc = "write"
                       /\ call'[c].port = assigned[key]
                       /\ free' = free
                       /\ assigned' = assigned
                 /\ call'[c].result = "resource_exhausted"
                       <=> (assigned[key] = NoPort /\ free = {})
                 /\ (assigned[key] = NoPort /\ free # {}) =>
                       /\ call'[c].port \in free
                       /\ assigned' = [assigned EXCEPT ![key] = call'[c].port]
                       /\ free' = free \ {call'[c].port}
        /\ \A k1, k2 \in Keys :
              (k1 # k2 /\ assigned'[k1] # NoPort) => assigned'[k1] # assigned'[k2]
      ]_vars

\* C11 witness: two starts of one key were assigned the same port, the second
\* one while the key held it, and another port is still free
C11_Witness ==
    \E c, d \in Calls :
        /\ c < d
        /\ call[c].kind = "start" /\ call[d].kind = "start"
        /\ KeyOf(c) = KeyOf(d)
        /\ call[c].port # NoPort /\ call[d].port = call[c].port
        /\ assigned[KeyOf(c)] = call[c].port
        /\ free # {}

\* call d, not the first one, is a sandbox.stop of the key of which the call
\* before it was a sandbox.stop that returned Ok
SecondStop(d) ==
    /\ d - 1 \in DOMAIN call
    /\ call[d - 1].kind = "stop" /\ call[d - 1].result = "ok"
    /\ call[d].kind = "stop"
    /\ KeyOf(d) = KeyOf(d - 1)

PortalMappings(ports) ==
    {k \in 1..Len(ports) : ports[k][2] = DEFAULT_PORTAL_GUEST_PORT}

\* call c is a sandbox.start of key that has returned Ok
StartedOk(c, key) ==
    /\ call[c].kind = "start" /\ call[c].result = "ok" /\ KeyOf(c) = key

\* start(x); stop(x); start(x) with the same request, run one after the other
\* as the calls 1, 2 and 3, have all returned Ok, and no call was issued since
RestartDone ==
    /\ StartedOk(1, KeyOf(1))
    /\ call[2].kind = "stop" /\ call[2].result = "ok" /\ KeyOf(2) = KeyOf(1)
    /\ StartedOk(3, KeyOf(1))
    /\ call[3].req = call[1].req
    /\ \A e \in DOMAIN call : e > 3 => call[e].pc = "idle"

\* C13: after start(x); stop(x); start(x) the state is the one after the
\* first start(x) but for the port: x is started, x alone has a port, every
\* other port is free, and the persisted ports list of x is the list the first
\* start persisted with the port replaced: it has exactly one portal mapping.
C13_RestartLikeStart ==
    RestartDone =>
        LET x == KeyOf(1)
            entry == cfgFile[x[1]][x[2]]
        IN /\ x \in vmUp
           /\ assigned[x] # NoPort /\ assigned[x] = call[3].port
           /\ AssignedKeys = {x}
           /\ free = PortRange \ {assigned[x]}
           /\ entry.present /\ entry.image = call[1].req.image
           /\ entry.ports = call[3].wrote
           /\ Cardinality(PortalMappings(entry.ports)) = 1
           /\ entry.ports[Len(entry.ports)] = <<assigned[x], DEFAULT_PORTAL_GUEST_PORT>>
           /\ Retain(entry.ports) = Retain(call[1].wrote)

\* C13 witness: the three calls have returned Ok and the request carried a
\* ports list with a mapping of the portal's guest port
C13_Witness ==
    /\ RestartDone
    /\ call[1].req.ports # <<>>
    /\ KeyOf(1) \in vmUp

\* C15: the entry that sandbox.start merges for its sandbox has, for the
\* fields image, memory and ports, the value of the request when the request
\* supplies one and the value of the on-disk entry otherwise.
C15_MergePrecedence ==
    [][\A c \in SeqCalls :
          (call[c].pc = "idle" /\ call'[c].kind = "start" /\ call'[c].pc = "assign") =>
             LET ns == call'[c].ns
                 sb == call'[c].sb
                 req == call'[c].req
                 disk == IF ns \in cfgExists THEN cfgFile[ns][sb] ELSE NoEntry
                 merged == call'[c].cfg[sb]
             IN /\ merged.image = IF req.image # "none" THEN req.image ELSE disk.image
                /\ merged.memory = IF req.memory # NoMemory THEN req.memory ELSE disk.memory
                /\ merged.ports = IF req.ports # <<>> THEN req.ports ELSE disk.ports]_vars

\* every call from c to d is a sandbox.start of the same sandbox with the same
\* request that has returned Ok
SameStarts(c, d) ==
    \A e \in c..d : StartedOk(e, KeyOf(c)) /\ call[e].req = call[c].req

\* C16: after successful starts of one sandbox with the same request, each
\* of them persisted the same ports list, the list is the persisted one, it has
\* exactly one mapping that ends in :PORTAL_GUEST_PORT, and that one is
\* <assigned port>:PORTAL_GUEST_PORT.
C16_PortsRewriteIdempotent ==
    \A c, d \in SeqCalls :
        (c < d /\ SameStarts(c, d)) =>
            LET x == KeyOf(c)
            IN /\ call[d].wrote = call[c].wrote
               /\ call[d].port # NoPort /\ call[d].port = call[c].port
               /\ (\A e \in SeqCalls : e > d => call[e].pc = "idle")
                     => /\ cfgFile[x[1]][x[2]].ports = call[d].wrote
                        /\ assigned[x] = call[d].port
               /\ PortalMappings(call[d].wrote) = {Len(call[d].wrote)}
               /\ call[d].wrote[Len(call[d].wrote)] = <<call[d].port, DEFAULT_PORTAL_GUEST_PORT>>

\* C16 witness: a start with an image and a ports list that has a mapping of
\* the portal's guest port, then two starts without a config, which rewrite
\* the list they find on disk
C16_Witness ==
    /\ StartedOk(1, KeyOf(1)) /\ call[1].req.ports # <<>>
    /\ SameStarts(2, 3) /\ KeyOf(2) = KeyOf(1)
    /\ call[2].req.image = "none"

\* call c, a sandbox.start, has written the config file
HasWritten(c) == call[c].kind = "start" /\ call[c].wrote # <<>>

\* C14: when two sandbox.start calls for different sandboxes of one namespace
\* have both written the config file, the file holds the entries of both
\* sandboxes, each with the portal port mapping that its call wrote.
C14_BothEntriesPersisted ==
    \A c, d \in Calls :
        (HasWritten(c) /\ HasWritten(d) /\ call[c].ns = call[d].ns /\ call[c].sb # call[d].sb)
        => /\ cfgFile[call[c].ns][call[c].sb].present
           /\ cfgFile[call[c].ns][call[c].sb].ports = call[c].wrote

\* the poll that is recorded is the poll of call c, the last call issued,
\* and it has ended
PollEnded(c) ==
    /\ call[c].kind = "start"
    /\ \A d \in Calls : d > c => call[d].pc = "idle"
    /\ poll.outcome # "none"
    /\ \/ call[c].pc = "poll" /\ poll.pc = "polling"
       \/ call[c].pc = "done" /\ call[c].result = "ok" /\ poll.pc = "returned"

\* C17: the poll ends only when running was observed or when the readiness
\* timeout has elapsed, 60 s for a request without an image and 180 s for one
\* with an image; the call then returns Ok, and the sandbox and its port stay.
C17_PollUntilRunningOrTimeout ==
    \A c \in Calls : PollEnded(c) =>
        /\ \/ poll.outcome = "running"
           \/ poll.elapsed >= (IF call[c].req.image # "none" THEN 180000 ELSE 60000)
        /\ assigned[KeyOf(c)] = call[c].port
        /\ KeyOf(c) \in vmUp

\* what holds of the poll: the timeout ends it at 60 s or at 180 s, and
\* whatever ends it, the call returns Ok and the sandbox and its port stay
C17_PollNeverFatal ==
    /\ \A c \in Calls : PollEnded(c) =>
          /\ poll.outcome = "timeout" <=>
                poll.elapsed >= (IF call[c].req.image # "none" THEN 180000 ELSE 60000)
          /\ assigned[KeyOf(c)] = call[c].port
          /\ KeyOf(c) \in vmUp
    /\ [][\A c \in Calls : (call[c].pc = "poll" /\ call'[c].pc = "done")
                                => call'[c].result = "ok"]_vars

\* the poll ended after MAX_ATTEMPTS attempts, before the timeout
C17_MaxAttemptsFirst ==
    \E c \in Calls : PollEnded(c) /\ poll.outcome = "max_attempts" /\ call[c].pc = "done"

(***************************************************************************)
(* Part II.  Properties                                                    *)
(***************************************************************************)
Range(seq) == {seq[k] : k \in 1..Len(seq)}
IsTerminal(m) == m.t \in {"Done", "Error"}
\* the positions of the terminal messages on the channel of eval i
Terminals(i) == {k \in 1..Len(resp[i]) : IsTerminal(resp[i][k])}
\* the eval whose code printed the text of a line
Origin(text) == IF text[1] = "dbg" THEN text[2][2] ELSE text[2]
IsMarkerText(text) == text[1] = "eoe"
PyBusy == py.req # 0 \/ py.pc # "idle" \/ py.done # "none"
RsBusy == rs.req # 0 \/ rs.pc # "idle" \/ rs.done # "none"
EngineBusy(lang) == IF lang = "python" THEN PyBusy ELSE RsBusy
\* eval j has been taken from the command channel by the reactor
Dispatched(j) == j <= nSub /\ j \notin Range(cmdQ)

\* C4: the channel of an eval carries at most one terminal message (Done or
\* Error), every message on it has the eval's id, and nothing follows the
\* terminal message.
C4_OneTerminalLast ==
    \A i \in Evals :
        /\ Cardinality(Terminals(i)) <= 1
        /\ \A k \in Terminals(i) : k = Len(resp[i])
        /\ \A k \in 1..Len(resp[i]) : resp[i][k].id = i

\* C5: no Line that was sent has the end-of-execution marker of any eval as
\* its text.
C5_NoMarkerForwarded ==
    \A i \in Evals : \A k \in 1..Len(resp[i]) :
        resp[i][k].t = "Line" => ~IsMarkerText(resp[i][k].text)

\* C6: every Line carries the id of the eval whose code printed it: output of
\* an eval is never delivered with the id of a later eval.
C6_OwnOutputOnly ==
    \A i \in Evals : \A k \in 1..Len(resp[i]) :
        resp[i][k].t = "Line" => Origin(resp[i][k].text) = i

\* C7: an eval whose timeout elapsed before its marker was seen has the Error
\* "Execution timed out after N seconds" and no Done on its channel, and once
\* its eval() has returned, it has returned the timeout error and the slot
\* does not hold it any more.
C7_TimeoutOutcome ==
    \A i \in Evals : timedOut[i] = "unseen" =>
        /\ TimeoutMsg(i, ev[i].timeout) \in Range(resp[i])
        /\ DoneMsg(i) \notin Range(resp[i])
        /\ i \in returned =>
              /\ EngineErrorMsg(i, "timeout") \in Range(resp[i])
              /\ py.slot.id # i /\ rs.slot.id # i

\* C8: when a Python eval whose code never terminates has timed out, the next
\* Python eval, a print, completes with its own line and Done.
C8_UsableAfterTimeout ==
    \A i, j \in Evals :
        ( /\ i < j /\ j <= nSub
          /\ ev[i].lang = "python" /\ ev[j].lang = "python"
          /\ \A m \in Evals : (i < m /\ m < j) => ev[m].lang # "python"
          /\ ev[i].code = "loop" /\ timedOut[i] # "no"
          /\ ev[j].code = "print"
          /\ j \in returned )
        => resp[j] = <<LineMsg(j, "stdout", Output(j)), DoneMsg(j)>>

\* what the code does after such a timeout: the next Python eval never
\* receives Done
C8_NeverDoneAfterLoop ==
    \A i, j \in Evals :
        ( /\ i < j /\ j <= nSub
          /\ ev[i].lang = "python" /\ ev[j].lang = "python"
          /\ ev[i].code = "loop" )
        => DoneMsg(j) \notin Range(resp[j])

InArrivalOrder(seq, lang) ==
    \A k \in 1..Len(seq) :
        \A i \in 1..(seq[k] - 1) :
            ev[i].lang = lang => \E m \in 1..(k - 1) : seq[m] = i

\* C18: a Rust eval whose code does not compile has, once its eval() has
\* returned, an Error as its terminal message and no Done; and a Rust eval
\* that follows is evaluated by the worker in the same context.
C18_RustErrorIsError ==
    \A i \in Evals :
        (i <= nSub /\ ev[i].lang = "rust" /\ ev[i].code = "bad" /\ i \in returned) =>
            /\ DoneMsg(i) \notin Range(resp[i])
            /\ \E k \in 1..Len(resp[i]) : resp[i][k].t = "Error"
            /\ \A j \in Evals : (i < j /\ j \in returned /\ ev[j].lang = "rust")
                  => \E k, m \in 1..Len(rs.ctx) : k < m /\ rs.ctx[k] = i /\ rs.ctx[m] = j

\* what holds of such an eval: Done is sent for it, then the reactor's Error;
\* the worker goes on with the next Rust eval in the same context
C18_DoneThenError ==
    \A i \in Evals :
        (i <= nSub /\ ev[i].lang = "rust" /\ ev[i].code = "bad" /\ i \in returned) =>
            /\ Len(resp[i]) >= 2
            /\ resp[i][Len(resp[i]) - 1] = DoneMsg(i)
            /\ resp[i][Len(resp[i])] = EngineErrorMsg(i, "evaluation")
            /\ \A j \in Evals : (i < j /\ j \in returned /\ ev[j].lang = "rust")
                  => \E k, m \in 1..Len(rs.ctx) : k < m /\ rs.ctx[k] = i /\ rs.ctx[m] = j

\* C19: the code of an eval is run by the one interpreter of its language
\* after the code of every earlier eval of that language was given to that
\* interpreter, and the interpreter runs one code at a time: the Python process
\* and the Rust context are never replaced between evals.
C19_Stateful ==
    /\ InArrivalOrder(pyProc.env, "python")
    /\ InArrivalOrder(rs.ctx, "rust")
    /\ pyProc.run # 0 => pyProc.run = pyProc.env[Len(pyProc.env)]
    /\ \A i \in Evals : (i \in returned /\ ev[i].lang = "rust") => i \in Range(rs.ctx)
    /\ \A i \in Evals : (DoneMsg(i) \in Range(resp[i]) /\ ev[i].lang = "python")
          => i \in Range(pyProc.env)

\* C19 witness: two Python evals have returned, and the process has run the
\* code of the first and then the code of the second
C19_Witness ==
    /\ pyProc.env = <<1, 2>>
    /\ {1, 2} \subseteq returned
    /\ DoneMsg(2) \in Range(resp[2])

\* C20: from the moment the receiver of an eval in flight is dropped, nothing
\* is delivered on its channel; the eval is not cancelled: its slot is cleared
\* only when its marker was seen, when its timeout has elapsed or (Rust) when
\* its code did not compile; and the reactor leaves the eval only with the
\* result of its eval(), after which the slot does not hold the eval and the
\* reactor is free for the next command.
C20_DisconnectDoesNotCancel ==
    [][\A i \in Evals : ev[i].rx = "dropped" =>
          /\ resp'[i] = resp[i]
          /\ (py.slot.id = i /\ py'.slot.id # i) =>
                (py.slot.completed \/ timedOut'[i] # "no")
          /\ (rs.slot.id = i /\ rs'.slot.id # i) =>
                (rs.slot.completed \/ timedOut'[i] # "no" \/ ~rs.evalOk)
          /\ (rCur = i /\ rCur' # i) =>
                /\ i \in returned'
                /\ (IF ev[i].lang = "python" THEN py.done ELSE rs.done)
                      \in {"ok", "timeout", "evaluation"}
                /\ rCur' = 0
          /\ i \in returned' => (py'.slot.id # i /\ rs'.slot.id # i)]_vars

\* C20 witness: the receiver of eval 1 was dropped in flight; its marker was
\* seen all the same and its eval() has returned; the reactor went on to eval
\* 2, which has completed with Done
C20_Witness ==
    /\ ev[1].rx = "dropped" /\ 1 \in returned /\ timedOut[1] = "no"
    /\ resp[1] = <<>>
    /\ 2 \in returned /\ DoneMsg(2) \in Range(resp[2])

\* the evals that were submitted after a call of EngineHandle::shutdown had
\* returned Ok: their command is behind a Cmd::Shutdown in the channel, or
\* was dropped with the channel, or could not be sent
RECURSIVE BehindShutdown(_)
BehindShutdown(q) ==
    IF q = <<>> THEN {}
    ELSE IF Head(q) = ShutdownCmd THEN EvalsIn(Tail(q))
    ELSE BehindShutdown(Tail(q))

SubmittedAfterShutdown ==
    BehindShutdown(cmdQ) \cup shut.discarded \cup shut.unavailable

\* C21: when the reactor has processed Shutdown, both sub-engines are shut
\* down and no command is consumed any more, every eval that was accepted
\* before the Shutdown command has a terminal message, and every eval
\* submitted after shutdown() returned has failed with
\* EngineError::Unavailable.
C21_ShutdownDrainsAndRefuses ==
    /\ shut.reactor = "stopped" =>
          /\ py.pc = "shutdown" /\ rs.pc = "shutdown" /\ cmdQ = <<>> /\ rCur = 0
          /\ \A i \in returned : Terminals(i) # {}
    /\ shut.reactor = "stopped" =>
          \A i \in SubmittedAfterShutdown : i \in shut.unavailable

\* what does hold: the sub-engines are shut down, the evals dispatched before
\* Shutdown have their terminal message, and every eval submitted after the
\* reactor has ended fails with Unavailable; an eval that was submitted between
\* the return of shutdown() and the reactor's processing of the command is
\* dropped with the channel and gets no message at all
C21_ShutdownDrainsDispatched ==
    shut.reactor = "stopped" =>
       /\ py.pc = "shutdown" /\ rs.pc = "shutdown" /\ cmdQ = <<>> /\ rCur = 0
       /\ \A i \in 1..nSub :
             \/ i \in returned /\ Terminals(i) # {}
             \/ i \in shut.discarded /\ resp[i] = <<>>
             \/ i \in shut.unavailable /\ resp[i] = <<>>

\* the languages for which an eval was submitted
EvalLanguages == {ev[i].lang : i \in 1..nSub}

\* C22: a REPL session exists only for a language for which an eval was
\* submitted.
C22_SessionsAreLazy == session \subseteq EvalLanguages

\* what does hold: from the initialization of the engines to the shutdown
\* every language has its session, whether an eval was submitted for it or not
C22_SessionsAreEager ==
    /\ shut.reactor = "init" => session = {}
    /\ shut.reactor = "running" => session = Languages
    /\ shut.reactor = "stopped" => session = {}

(***************************************************************************)
(* Part III.  Properties                                                   *)
(***************************************************************************)
RpcDone == rpc.pc = "done"
ErrorCode == rpc.reply.body.error.code
\* no lifecycle implementation was called and the portal got no request
NothingRun == rpc.ran = "none" /\ rpc.heads = 0 /\ rpc.posted = <<>>
KnownMethods == LifecycleMethods \cup ForwardedMethods

\* C23: a request whose version is not "2.0" is answered with -32600 whatever
\* its method is; otherwise an unknown method with -32601; otherwise params
\* that do not parse for a lifecycle method with -32602; in these cases no
\* lifecycle operation is run and the portal is not contacted.
C23_DispatchErrors ==
    RpcDone =>
       /\ rpc.req.jsonrpc # "2.0" => ErrorCode = INVALID_REQUEST /\ NothingRun
       /\ rpc.req.jsonrpc = "2.0" /\ rpc.req.method \notin KnownMethods =>
             ErrorCode = METHOD_NOT_FOUND /\ NothingRun
       /\ rpc.req.jsonrpc = "2.0" /\ rpc.req.method \in LifecycleMethods
             /\ rpc.req.params # "full" =>
             ErrorCode = INVALID_PARAMS /\ NothingRun

\* a request with a wrong version and an unknown method was answered
C23_Witness ==
    /\ RpcDone /\ rpc.req.jsonrpc = "1.0" /\ rpc.req.method = "no.such.method"
    /\ ErrorCode = INVALID_REQUEST

\* C24: the forwarder stops probing at the first probe that gets a response,
\* whatever its status, and then POSTs exactly once; after MAX_RETRIES failed
\* probes it returns -32000 and never POSTs; no more than MAX_RETRIES probes
\* are sent.
C24_ProbeThenPostOnce ==
    /\ rpc.heads <= MAX_RETRIES /\ Len(rpc.posted) <= 1
    /\ rpc.head_status # 0 => rpc.heads = rpc.retry_count + 1
    /\ rpc.head_status = 0 => rpc.heads = rpc.retry_count /\ rpc.posted = <<>>
    /\ rpc.pc = "post" <=> rpc.head_status # 0 /\ rpc.posted = <<>>
    /\ RpcDone /\ rpc.head_status # 0 => Len(rpc.posted) = 1
    /\ rpc.pc = "probe" => rpc.retry_count < MAX_RETRIES
    /\ rpc.retry_count = MAX_RETRIES =>
          RpcDone /\ ErrorCode = SERVER_ERROR /\ rpc.posted = <<>>

\* the portal answered the last probe that the loop allows, with an error
\* status, and the request was POSTed
C24_Witness ==
    /\ RpcDone /\ rpc.heads = MAX_RETRIES /\ rpc.head_status = NOT_FOUND
    /\ Len(rpc.posted) = 1

\* the portal never answered
C24_WitnessUnreachable ==
    RpcDone /\ rpc.retry_count = MAX_RETRIES /\ ErrorCode = SERVER_ERROR

C25_WitnessError ==
    RpcDone /\ rpc.portal # NoReply /\ ~is_success(rpc.portal.status)

\* C26: no method that the server forwards is answered by the portal with
\* method-not-found, and no method that the SDK sends is answered by the
\* server with method-not-found.
C26_MethodSurfacesAgree ==
    RpcDone /\ rpc.req.jsonrpc = "2.0" =>
       /\ rpc.req.method \in SdkMethods => ErrorCode # METHOD_NOT_FOUND
       /\ rpc.req.method \in ForwardedMethods /\ rpc.portal # NoReply =>
             rpc.portal.body.error.code # METHOD_NOT_FOUND

\* what does hold: the one method that both the server forwards and the
\* portal handles is sandbox.command.run
C26_OnlyCommandRun ==
    RpcDone /\ rpc.portal # NoReply =>
       (is_success(rpc.portal.status) <=> rpc.req.method = "sandbox.command.run")

\* the grammar ^[A-Za-z0-9][A-Za-z0-9_-]{0,62}$, character by character
MatchesGrammar(name) ==
    /\ Len(name) \in 1..63
    /\ name[1] \in Letters \cup Digits
    /\ \A k \in 2..Len(name) : name[k] \in Letters \cup Digits \cup {"_", "-"}

\* C27: validate_sandbox_name and validate_namespace accept a name exactly
\* when it matches ^[A-Za-z0-9][A-Za-z0-9_-]{0,62}$.
C27_NameGrammar ==
    check.pc = "done" => (check.result = "ok" <=> MatchesGrammar(check.name))

\* a name of 63 characters that starts with a digit and has an underscore was
\* accepted
C27_Witness ==
    /\ check.pc = "done" /\ check.result = "ok"
    /\ Len(check.name) = 63 /\ check.name[1] = "7" /\ check.name[2] = "_"

\* the names that the claim lists as rejected are rejected
C27_Rejected ==
    check.pc = "done" /\ ( \/ check.name = <<>>
                           \/ Len(check.name) = 64
                           \/ check.name \in {<<"*">>, <<"-", "a">>, <<"_", "a">>} )
       => check.result # "ok"

\* the config file of the namespace has an entry for the sandbox
OnDiskSupplies(ns, sb) == ns \in cfgExists /\ cfgFile[ns][sb].present

\* call c, a sandbox.start, is issued without an image for a sandbox that the
\* on-disk config does not supply
StartsWithoutConfig(c) ==
    /\ call[c].pc = "idle" /\ call'[c].pc # "idle" /\ call'[c].kind = "start"
    /\ call'[c].req.image = "none"
    /\ ~OnDiskSupplies(call'[c].ns, call'[c].sb)

\* C29: a sandbox.start without an image, for a sandbox that has no config
\* file or no entry in it, ends with a validation error; it assigns no port
\* and launches no VM.
C29_NoImageNoConfig ==
    [][\A c \in Calls :
          StartsWithoutConfig(c) =>
             /\ call'[c].pc = "done" /\ call'[c].result = "validation"
             /\ call'[c].port = NoPort
             /\ UNCHANGED <<free, assigned, vmUp>>]_vars

\* such a call was refused in a namespace whose config file has an entry for
\* another sandbox
C29_Witness ==
    \E c \in Calls :
       /\ call[c].kind = "start" /\ call[c].pc = "done" /\ call[c].result = "validation"
       /\ call[c].req.image = "none"
       /\ call[c].ns \in cfgExists /\ ~cfgFile[call[c].ns][call[c].sb].present
       /\ \E sb \in Sandboxes : cfgFile[call[c].ns][sb].present

\* the same without a config file: the namespace directory was there before
\* the call and has no config file
C29_WitnessNoFile ==
    \E c \in Calls :
       /\ call[c].kind = "start" /\ call[c].pc = "done" /\ call[c].result = "validation"
       /\ call[c].ns \in nsDir /\ call[c].ns \notin cfgExists

\* call c is issued with the namespace *
IssuedWithWildcard(c) ==
    call[c].pc = "idle" /\ call'[c].pc # "idle" /\ call'[c].ns = WILDCARD

\* C28: sandbox.metrics.get accepts the namespace *; a sandbox.start or
\* sandbox.stop with the namespace * ends at once with a validation error:
\* no directory is created, no port assigned or released, no supervisor
\* contacted.
C28_WildcardOnlyForMetrics ==
    /\ [](metrics.pc = "done" /\ metrics.params.namespace = WILDCARD =>
             metrics.result.kind = "ok")
    /\ [][\A c \in Calls :
             IssuedWithWildcard(c) =>
                /\ call'[c].pc = "done" /\ call'[c].result = "validation"
                /\ UNCHANGED <<nsDir, cfgExists, cfgFile, free, assigned, vmUp>>]_vars

\* a sandbox.stop with the namespace * was refused while a sandbox is up and
\* holds a port, and the metrics of every namespace were returned
C28_Witness ==
    /\ \E c \in Calls : /\ call[c].kind = "stop" /\ call[c].ns = WILDCARD
                         /\ call[c].pc = "done" /\ call[c].result = "validation"
    /\ vmUp # {} /\ AssignedKeys # {}
    /\ metrics.pc = "done" /\ metrics.params.namespace = WILDCARD
    /\ Cardinality(metrics.result.sandboxes) = 2

\* the records that the namespace n has for the query: those of its
\* sandboxes, of the named one when a name is given
RecordsOf(n) ==
    {[namespace |-> n, name |-> sb, running |-> (metrics.fs[n].sandboxes[sb] = "running")] :
        sb \in {x \in Sandboxes : /\ metrics.fs[n].kind = "dir"
                                   /\ metrics.fs[n].sandboxes[x] # "none"
                                   /\ metrics.params.sandbox \in {NoSandbox, x}}}

\* the supervisor's status of every namespace can be read
StatusReadable == metrics.root /\ \A n \in MetricNamespaces : ~metrics.fs[n].fails
                                                             /\ metrics.fs[n].kind # "file"

\* C30: with namespace * the response has the records of every namespace
\* directory, each tagged with its namespace; with a concrete namespace the
\* records of that namespace only; a query for a sandbox that does not exist
\* yields an empty list and no error.
C30_MetricsQuery ==
    metrics.pc = "done" /\ StatusReadable =>
       /\ metrics.result.kind = "ok"
       /\ metrics.params.namespace = WILDCARD =>
             metrics.result.sandboxes = UNION {RecordsOf(n) : n \in MetricNamespaces}
       /\ metrics.params.namespace # WILDCARD =>
             metrics.result.sandboxes = RecordsOf(metrics.params.namespace)

\* what does hold: the same, for the queries whose namespace is * or has its
\* directory; a query with a namespace that has no directory is answered
\* with a validation error
C30_MetricsOfExistingNamespaces ==
    metrics.pc = "done" /\ StatusReadable =>
       /\ metrics.params.namespace = WILDCARD =>
             /\ metrics.result.kind = "ok"
             /\ metrics.result.sandboxes = UNION {RecordsOf(n) : n \in MetricNamespaces}
       /\ metrics.params.namespace # WILDCARD =>
             IF metrics.fs[metrics.params.namespace].kind = "dir"
             THEN /\ metrics.result.kind = "ok"
                  /\ metrics.result.sandboxes = RecordsOf(metrics.params.namespace)
             ELSE metrics.result.kind = "validation"

(***************************************************************************)
(* Part IV.  Properties                                                    *)
(***************************************************************************)
\* the lines of eval i's code that are not empty and are no prompt artifacts
PrintedLines(i) ==
    SelectSeq(handle.prog[i],
              LAMBDA l : l # <<>> /\ ~starts_with(l, <<">">>) /\ ~starts_with(l, <<".", ".">>))

\* the texts of the Stdout Lines among the messages msgs
StdoutTexts(msgs) ==
    LET sel == SelectSeq(msgs, LAMBDA m : m.t = "Line" /\ m.stream = "stdout")
    IN [k \in 1..Len(sel) |-> sel[k].text]

\* C31: when the Node engine has sent Done for an eval, the Stdout Lines it
\* sent for the eval, all before the Done, are the lines the eval's code
\* printed that are not empty and do not begin with > or ..; no line that
\* begins with > or .. is ever sent.
C31_NodeStdoutForwarded ==
    \A i \in CodeEvals :
       /\ \A m \in Range(handle.sent[i]) :
             m.t = "Line" /\ m.stream = "stdout" =>
                ~starts_with(m.text, <<">">>) /\ ~starts_with(m.text, <<".", ".">>)
       /\ DoneMsg(i) \in Range(handle.sent[i]) =>
             /\ handle.sent[i][Len(handle.sent[i])] = DoneMsg(i)
             /\ StdoutTexts(handle.sent[i]) = PrintedLines(i)

\* what does hold: nothing is ever sent on the channel of the active
\* evaluation, so the reader threads read no line and the engine sends no
\* Line at all; an eval gets Done, or Error, and nothing else
C31_NoLineForwarded ==
    /\ node.eval_rx = <<>>
    /\ \A i \in CodeEvals : \A m \in Range(handle.sent[i]) : m.t # "Line"

\* C39: every call of EngineHandle::eval returns, with the lines of the
\* messages that the engine sent for the eval.
C39_EvalTerminates ==
    \A i \in CodeEvals :
       (handle.caller[i] # "none") ~>
          (/\ handle.caller[i] = "returned"
           /\ Len(handle.lines[i]) =
                 Cardinality({k \in 1..Len(handle.sent[i]) : handle.sent[i][k].t # "Done"}))

\* what does hold: no message reaches resp_receiver, whose only sender
\* stays unused in the frame of eval, and no call of eval ever returns
C39_EvalNeverReturns ==
    \A i \in CodeEvals :
       /\ handle.resp_receiver[i].buf = <<>>
       /\ handle.line_sender[i] = "open"
       /\ handle.caller[i] # "returned"

(***************************************************************************)
(* Part V.  Properties                                                     *)
(***************************************************************************)
\* an entrypoint can be resolved from the sandbox: it has a start script, a
\* command or a shell
HasEntrypoint(sandbox) ==
    \/ START_SCRIPT_NAME \in sandbox.scripts
    \/ Len(sandbox.command) > 0
    \/ sandbox.shell # NoShell

NoRequestSent == sdk'.sent = sdk.sent
\* the call that the step makes sent exactly the request method and the
\* server answered it with a result
Succeeded(method) ==
    /\ sdk'.sent = Append(sdk.sent, method)
    /\ sdk'.last.response \in {"ok", "warning"}

\* C33: while is_started is false, run_code, Command::run and Metrics::get
\* return NotStarted and send nothing; start_sandbox sends nothing when
\* started, and is_started becomes true only by a sandbox.start that was
\* answered without error; stop_sandbox sends nothing when not started, and
\* is_started becomes false only by a sandbox.stop that succeeded.
C33_SdkStartedFlag ==
    [][/\ (sdk'.last.op \in {"run_code", "Command::run", "Metrics::get"}) =>
             /\ sdk'.is_started = sdk.is_started
             /\ ~sdk.is_started => NoRequestSent /\ sdk'.last.result = "NotStarted"
       /\ (sdk'.last.op = "start_sandbox" /\ sdk.is_started) =>
             NoRequestSent /\ sdk'.is_started
       /\ (sdk'.last.op = "stop_sandbox" /\ ~sdk.is_started) =>
             NoRequestSent /\ ~sdk'.is_started
       /\ (~sdk.is_started /\ sdk'.is_started) =>
             sdk'.last.op = "start_sandbox" /\ Succeeded("sandbox.start")
       /\ (sdk.is_started /\ ~sdk'.is_started) =>
             sdk'.last.op = "stop_sandbox" /\ Succeeded("sandbox.stop")]_vars

\* a start failed and a run_code was refused without a request; then a
\* start succeeded
C33_Witness ==
    /\ sdk.is_started /\ sdk.calls = 3
    /\ sdk.sent = <<"sandbox.start", "sandbox.start">>
    /\ sdk.last.op = "start_sandbox"

\* a stop failed and left the sandbox started, and a second start sent
\* nothing
C33_WitnessStop ==
    /\ sdk.is_started /\ sdk.calls = 3
    /\ sdk.sent = <<"sandbox.start", "sandbox.stop">>
    /\ sdk.last.op = "start_sandbox" /\ sdk.last.result = "ok"

\* the path without one trailing slash
WithoutTrailingSlash(path) ==
    IF ends_with(path, "/") THEN SubSeq(path, 1, Len(path) - 1) ELSE path

\* the path p is the path q or an ancestor directory of it, by whole
\* components
IsSameOrAncestor(p, q) ==
    LET cp == Components(WithoutTrailingSlash(p))
        cq == Components(WithoutTrailingSlash(q))
    IN Len(cp) <= Len(cq) /\ SubSeq(cq, 1, Len(cp)) = cp

\* C34: paths_overlap is true exactly when the two paths are the same or one
\* is an ancestor directory of the other, by whole components and without
\* regard to one trailing slash; it gives the same for both orders of its
\* arguments.
C34_PathsOverlap ==
    core.pc = "done" /\ core.fn = "paths_overlap" =>
       /\ core.result.given
             <=> \/ IsSameOrAncestor(core.args[1], core.args[2])
                 \/ IsSameOrAncestor(core.args[2], core.args[1])
       /\ core.result.swapped = core.result.given

\* /a and /ab, which share a prefix of characters, were found not to overlap
C34_Witness ==
    /\ core.pc = "done" /\ core.fn = "paths_overlap"
    /\ core.args = << <<"/", "a">>, <<"/", "a", "b">> >>
    /\ ~core.result.given

\* /a/ and /a/b were found to overlap; /a/a and /a/b, which are siblings,
\* were not (each in a behaviour of its own)
C34_Cases ==
    core.pc = "done" /\ core.fn = "paths_overlap" =>
       /\ core.args = << <<"/", "a", "/">>, <<"/", "a", "/", "b">> >> => core.result.given
       /\ core.args = << <<"/", "a", "/", "a">>, <<"/", "a", "/", "b">> >> => ~core.result.given
       /\ core.args = << <<"/", "a">>, <<"/", "a", "/">> >> => core.result.given

(***************************************************************************)
(* Part I.  Properties of concurrent starts and stops                      *)
(***************************************************************************)
\* the portal host ports in the persisted config of the sandbox k: the host
\* side of its mappings to the portal's guest port
PortalHostPorts(k) ==
    {m[1] : m \in {x \in Range(cfgFile[k[1]][k[2]].ports) :
                      x[2] = DEFAULT_PORTAL_GUEST_PORT}}

\* C35: the portal host port of a running sandbox is not in the free set and
\* is not assigned to another key, and no two running sandboxes have the
\* same portal host port in their persisted configs.
C35_RunningPortsExclusive ==
    \A k \in vmUp : \A p \in PortalHostPorts(k) :
       /\ p \notin free
       /\ \A other \in Keys \ {k} : assigned[other] # p
       /\ \A other \in vmUp \ {k} : p \notin PortalHostPorts(other)

\* what does hold under every interleaving: the portal host port of a
\* running sandbox is a port of the pool
C35_RunningPortsOfPool ==
    \A k \in vmUp : PortalHostPorts(k) \subseteq PortRange

(***************************************************************************)
(* Part II.  Properties of a python3 process that ends                     *)
(***************************************************************************)
\* the python3 process ran the code of eval i, which ended it, and the eval
\* has no timeout
ExitsUnbounded(i) ==
    pyProc.run = i /\ ev[i].code = "exit" /\ ev[i].timeout = NoTimeout

\* C36: every accepted eval is eventually answered by a terminal message
\* (Done or Error), also when the python3 process ends during an eval
\* without timeout, and the reactor goes on to the next command
C36_ExitedEvalAnswered ==
    \A i \in Evals : (i <= nSub) ~> (Terminals(i) # {} /\ rCur # i)

\* C36: what holds instead: an eval without timeout whose code ends the
\* process never gets a terminal message and never returns; the reactor
\* stays with it
C36_ExitedEvalHangs ==
    \A i \in Evals :
        ExitsUnbounded(i) => Terminals(i) = {} /\ i \notin returned /\ rCur = i

\* C36: with a timeout the eval whose code ends the process is answered by
\* the timeout Error, and later evals are answered by an engine Error
C36_AfterExitErrors ==
    \A i \in Evals :
        (i \in returned /\ \E j \in 1..(i - 1) : ev[j].code = "exit")
            => /\ Terminals(i) # {}
               /\ \A k \in Terminals(i) : resp[i][k].t = "Error"

(***************************************************************************)
(* Part I.  Properties of a start that is refused                          *)
(***************************************************************************)
\* call c, a sandbox.start, returns a validation error in this step
StartRefused(c) ==
    /\ call[c].pc = "idle" /\ call'[c].kind = "start"
    /\ call'[c].pc = "done" /\ call'[c].result = "validation"

\* C37: a sandbox.start that returns a validation error leaves the server's
\* state as it was: no namespace directory, environment or config file is
\* created, no port is assigned and no VM is started
C37_RefusedStartChangesNothing ==
    [][\A c \in Calls :
          StartRefused(c) =>
             UNCHANGED <<nsDir, cfgExists, cfgFile, free, assigned, vmUp>>]_vars

\* C37: what holds instead: the refused start assigns no port and starts no
\* VM, and a start refused for its names touches no file; a start refused
\* for want of a configuration has created the namespace directory, and with
\* it the default config file, when the directory was not there
C37_RefusedStartNoPortNoVm ==
    [][\A c \in Calls :
          StartRefused(c) =>
             /\ UNCHANGED <<free, assigned, vmUp>>
             /\ ~ValidNames(call'[c].ns, call'[c].sb)
                   => UNCHANGED <<nsDir, cfgExists, cfgFile>>
             /\ call'[c].ns \notin nsDir /\ ValidNames(call'[c].ns, call'[c].sb)
                   => /\ nsDir' = nsDir \cup {call'[c].ns}
                      /\ cfgExists' = cfgExists \cup {call'[c].ns}]_vars

(***************************************************************************)
(* Part II.  Properties of the Rust marker                                 *)
(***************************************************************************)
\* eval i is a Rust eval whose code compiles and runs to its end
RustRan(i) == i <= nSub /\ ev[i].lang = "rust" /\ ev[i].code \in {"print", "warn"}

\* the messages Done on the channel of eval i
Dones(i) == {k \in Terminals(i) : resp[i][k].t = "Done"}

\* C38: a Rust eval whose code compiles and runs ends with Done, with or
\* without timeout: the stdout reader recognises the line of the marker and
\* sets completed
C38_RustRunEndsWithDone ==
    \A i \in Evals : RustRan(i) /\ i \in returned => Dones(i) # {}

\* C38: what holds instead: completed is never set for a Rust eval, no Rust
\* eval that ran gets Done, and the one that returned had a timeout and got
\* the timeout Error
C38_RustMarkerNeverRecognised ==
    /\ ~rs.slot.completed
    /\ \A i \in Evals :
          RustRan(i) =>
             /\ Dones(i) = {}
             /\ i \in returned =>
                   /\ ev[i].timeout # NoTimeout
                   /\ \E k \in Terminals(i) :
                         resp[i][k] = TimeoutMsg(i, ev[i].timeout)

(***************************************************************************)
(* Part V.  Properties of normalize_volume_path                            *)
(***************************************************************************)
\* the call of normalize_volume_path has returned; its base path and its
\* requested path are absolute
AbsoluteVolumeDone ==
    /\ core.fn = "normalize_volume_path" /\ core.pc = "done"
    /\ starts_with(core.args[1], <<"/">>) /\ starts_with(core.args[2], <<"/">>)

NormalizedBase == normalize_path(core.args[1], "Absolute").path
NormalizedRequested == normalize_path(core.args[2], "Absolute").path

\* C40: for an absolute requested path normalize_volume_path returns Ok only
\* when the normalized path is the normalized base path or a descendant of
\* it by whole components; every other absolute path gives PathValidation
C40_AbsoluteUnderBase ==
    AbsoluteVolumeDone =>
       IF IsSameOrAncestor(NormalizedBase, NormalizedRequested)
       THEN core.result = OkPath(NormalizedRequested)
       ELSE core.result = ErrPath("PathValidation")

\* C40: what holds instead: the absolute path is accepted exactly when the
\* base path is a prefix of it as a string; every descendant of the base is
\* accepted, and so is a sibling whose name begins with the name of the base
C40_AbsoluteByStringPrefix ==
    AbsoluteVolumeDone =>
       /\ IF starts_with(NormalizedRequested, NormalizedBase)
          THEN core.result = OkPath(NormalizedRequested)
          ELSE core.result = ErrPath("PathValidation")
       /\ IsSameOrAncestor(NormalizedBase, NormalizedRequested)
             => core.result.kind = "ok"

====
